---------------------------- MODULE Spec2Model ----------------------------
(***************************************************************************)
(* Caching-and-staleness layer of the crypto question-answering backend.   *)
(*                                                                         *)
(* Two generations of the same services live side by side in the source    *)
(* and share one Redis store (same REDIS_URL default):                     *)
(*   - backend/services.py + backend/tasks.py  (prefix Svc_)               *)
(*   - backend/main.py                          (prefix Main_)             *)
(*                                                                         *)
(* Python strings are sequences of one-character strings, so that          *)
(* str.lower(), str.upper(), "x in s" and f-string concatenation are       *)
(* computed, not assumed.  Python values are tagged records.  Confidence   *)
(* scores are fixed-point, in thousandths (0.95 is 950).                   *)
(***************************************************************************)
EXTENDS Integers, Sequences, FiniteSets, TLC

VARIABLES
    store,      \* the Redis key-value store: key -> [val, exp], live entries only
    now,        \* wall clock, seconds
    written,    \* history: the last JSON text ever SETEX-ed under each market_data key
    last,       \* history: the call that produced this state and its outcome
    svc,        \* the worker's CryptoDataService instance and its outbound requests
    task        \* the Celery task of a submitted question and the request awaiting it

vars == <<store, now, written, last, svc, task>>

---------------------------------------------------------------------------
(* Bounds of the exploration                                               *)

TickGateway == 300       \* clock step in the gateway specification
MaxTimeGateway == 600    \* last clock value explored in the gateway specification
TickSentiment == 1800    \* clock step in the sentiment specification
MaxTimeSentiment == 3600 \* last clock value explored in the sentiment specification
MaxTimePolite == 4       \* last clock value explored in the politeness specification
MaxIdLen == 2            \* longest of the short identifiers the key claims range over
MaxChange == 7           \* largest 24h change, in percent, the composer is given

---------------------------------------------------------------------------
(* Python strings                                                          *)

UpperAlpha == <<"A","B","C","D","E","F","G","H","I","J","K","L","M",
                "N","O","P","Q","R","S","T","U","V","W","X","Y","Z">>
LowerAlpha == <<"a","b","c","d","e","f","g","h","i","j","k","l","m",
                "n","o","p","q","r","s","t","u","v","w","x","y","z">>

\* the case mappings of the ASCII letters
ToLower ==
    [c \in { UpperAlpha[i] : i \in 1..26 } |->
        LowerAlpha[CHOOSE i \in 1..26 : UpperAlpha[i] = c]]
ToUpper ==
    [c \in { LowerAlpha[i] : i \in 1..26 } |->
        UpperAlpha[CHOOSE i \in 1..26 : LowerAlpha[i] = c]]

LowerChar(c) == IF c \in DOMAIN ToLower THEN ToLower[c] ELSE c
UpperChar(c) == IF c \in DOMAIN ToUpper THEN ToUpper[c] ELSE c

\* str.lower()
Lower(s) == [i \in 1..Len(s) |-> LowerChar(s[i])]

\* str.upper()
Upper(s) == [i \in 1..Len(s) |-> UpperChar(s[i])]

\* "term in s" on strings: substring test
Contains(s, term) ==
    \E i \in 1..(Len(s) - Len(term) + 1) : SubSeq(s, i, i + Len(term) - 1) = term

Digits == <<"0","1","2","3","4","5","6","7","8","9">>

RECURSIVE IntToStr(_)
\* str(n) of a non-negative int, as the f-string renders {limit}
IntToStr(n) ==
    IF n < 10 THEN <<Digits[n + 1]>>
    ELSE Append(IntToStr(n \div 10), Digits[(n % 10) + 1])

str_market_data == <<"m","a","r","k","e","t","_","d","a","t","a">>
str_coin == <<"c","o","i","n">>
str_sentiment == <<"s","e","n","t","i","m","e","n","t">>
str_usd == <<"u","s","d">>
str_USD == <<"U","S","D">>
str_bitcoin == <<"b","i","t","c","o","i","n">>
str_btc == <<"b","t","c">>
str_ethereum == <<"e","t","h","e","r","e","u","m">>
str_eth == <<"e","t","h">>
str_pi_network == <<"p","i","-","n","e","t","w","o","r","k">>
str_full_response == <<"f","u","l","l","_","r","e","s","p","o","n","s","e">>
str_BTC == <<"B","T","C">>
str_price == <<"p","r","i","c","e">>
str_trend == <<"t","r","e","n","d">>
str_going_up == <<"g","o","i","n","g"," ","u","p">>
str_going_down == <<"g","o","i","n","g"," ","d","o","w","n">>
str_predict == <<"p","r","e","d","i","c","t">>
str_forecast == <<"f","o","r","e","c","a","s","t">>
str_future == <<"f","u","t","u","r","e">>
str_POSITIVE == <<"P","O","S","I","T","I","V","E">>
str_NEGATIVE == <<"N","E","G","A","T","I","V","E">>
str_NEUTRAL == <<"N","E","U","T","R","A","L">>
str_BTC_trend == <<"B","T","C"," ","t","r","e","n","d">>
str_btc_future == <<"b","t","c"," ","f","u","t","u","r","e">>
str_Positive == <<"P","o","s","i","t","i","v","e">>

---------------------------------------------------------------------------
(* Python values                                                           *)

None == [t |-> "none"]
PyList(s) == [t |-> "list", v |-> s]

\* json.dumps(x): a str.  The text is kept as the value it denotes; what matters to
\* the callers is that it is a non-empty str ("null" for None, "[]" for the empty
\* list), hence truthy, and that json.loads gives back None / list / dict.
json_dumps(x) == [t |-> "str", json |-> x]
json_loads(s) == s.json

\* the literal "null" that main.py writes as the negative sentinel
str_null == [t |-> "str", json |-> None]

\* bool(x) as "if x:" evaluates it
Truthy(x) ==
    CASE x.t = "none" -> FALSE
      [] x.t = "list" -> Len(x.v) > 0
      [] x.t = "str"  -> TRUE        \* JSON text is never the empty string
      [] x.t = "dict" -> DOMAIN x # {"t"}   \* {} is falsy
      [] OTHER -> FALSE

---------------------------------------------------------------------------
(* Cache configuration and keys                                            *)

CACHE_TTLS == [market_data |-> 300, coin_data |-> 600,
               sentiment |-> 3600, full_response |-> 1800]

Main_CACHE_TTLS == [market_data |-> 300, coin_data |-> 600, sentiment |-> 3600]

REDIS_CACHE_TTL == 300

\* the key without the case folding
get_cache_key_NoLower(prefix, identifier) == prefix \o <<":">> \o identifier

\* the key without its namespace prefix
get_cache_key_NoPrefix(prefix, identifier) == Lower(identifier)

\* f"{prefix}:{identifier.lower()}"
get_cache_key(prefix, identifier) == prefix \o <<":">> \o Lower(identifier)

---------------------------------------------------------------------------
(* The Redis store (decode_responses=True: GET gives a str or None)        *)

\* GET key: the value while the key has not expired, else None
RedisGet(st, t, key) ==
    IF key \in DOMAIN st /\ t < st[key].exp THEN st[key].val ELSE None

\* SETEX key ttl value
RedisSetex(st, t, key, ttl, val) ==
    [k \in (DOMAIN st) \cup {key} |->
        IF k = key THEN [val |-> val, exp |-> t + ttl] ELSE st[k]]

\* expiry: Redis drops every key whose time is up
RedisExpire(st, t) ==
    [k \in {x \in DOMAIN st : t < st[x].exp} |-> st[k]]

\* an empty store
EmptyStore == [k \in {} |-> None]

---------------------------------------------------------------------------
(* The upstream market API (GET /coins/markets) as the gateway sees it     *)

\* one coin object of the JSON array
Coin(id, symbol, pct) ==
    [t |-> "dict", id |-> id, symbol |-> symbol, price_change_percentage_24h |-> pct]

\* what the upstream ranks at the moment of a request, best market cap first
Worlds ==
    { <<>>,
      <<Coin(str_bitcoin, str_btc, 6)>>,
      <<Coin(str_ethereum, str_eth, -6), Coin(str_bitcoin, str_btc, -6)>> }

Take(s, n) == SubSeq(s, 1, IF Len(s) < n THEN Len(s) ELSE n)

\* the outcomes of requests.get: status 0 stands for "no response" (the request
\* raised), body "invalid" for a payload response.json() cannot decode
ResponsesFor(bodies) ==
    { [status |-> 0, body |-> None] }
    \cup { [status |-> s, body |-> None] : s \in {429, 500} }
    \cup { [status |-> 200, body |-> [t |-> "invalid"]] }
    \cup { [status |-> 200, body |-> PyList(b)] : b \in bodies }

\* ...params={"vs_currency", "per_page": limit, ...}
MarketResponses(limit) == ResponsesFor({ Take(w, limit) : w \in Worlds })

\* ...params={"vs_currency": "usd", "ids": name}
CoinResponses(name) ==
    ResponsesFor({ SelectSeq(w, LAMBDA c : c.id = name) : w \in Worlds })

\* The store operations that raise during one call, given the operations of the
\* call in program order: none; any single one (a transient error); or every one
\* from some point on (the store becomes unreachable during the call).
FailurePatterns(ops) ==
    { {} }
    \cup { {ops[i]} : i \in 1..Len(ops) }
    \cup { { ops[j] : j \in i..Len(ops) } : i \in 1..Len(ops) }

\* redis_client.get / setex calls of get_market_data, in program order
MarketStoreOps == <<"get", "get429", "setex", "getstale">>

\* those of services.py get_coin_by_name
SvcCoinStoreOps == <<"coin_get", "coin_setex">>

\* those of main.py get_coin_by_name, which calls get_market_data in between
MainCoinStoreOps ==
    <<"coin_get", "get", "get429", "setex", "getstale", "coin_setex", "coin_getstale">>

---------------------------------------------------------------------------
(* Outcome of a call: its return value or the fact that it raised, the     *)
(* store it leaves, the upstream requests and classifier runs it made      *)

Return(v, st, reqs, clf) ==
    [ret |-> v, raised |-> FALSE, store |-> st, reqs |-> reqs, clf |-> clf]

Raise(st, reqs, clf) ==
    [ret |-> None, raised |-> TRUE, store |-> st, reqs |-> reqs, clf |-> clf]

---------------------------------------------------------------------------
(* Market Data Gateway, backend/services.py                                *)

Svc_get_market_data(st, t, vs_currency, limit, resp, fails) ==
    LET cache_key == get_cache_key(str_market_data,
                                   vs_currency \o <<"_">> \o IntToStr(limit))
        \* except Exception: try to get stale data from cache
        Handler(reqs) ==
            IF "getstale" \in fails THEN Raise(st, reqs, 0)
            ELSE LET cached_data == RedisGet(st, t, cache_key) IN
                 IF Truthy(cached_data)
                 THEN Return(json_loads(cached_data), st, reqs, 0)
                 ELSE Return(PyList(<<>>), st, reqs, 0)
    IN
    IF "get" \in fails THEN Handler(0)
    ELSE LET cached_data == RedisGet(st, t, cache_key) IN
    IF Truthy(cached_data) THEN Return(json_loads(cached_data), st, 0, 0)
    ELSE \* _rate_limit(), then requests.get
    IF resp.status = 0 THEN Handler(1)
    ELSE IF resp.status = 429 THEN
        IF "get429" \in fails THEN Handler(1)
        ELSE LET stale == RedisGet(st, t, cache_key) IN
             IF Truthy(stale) THEN Return(json_loads(stale), st, 1, 0)
             ELSE Return(PyList(<<>>), st, 1, 0)
    ELSE IF resp.status >= 400 THEN Handler(1)          \* raise_for_status()
    ELSE IF resp.body.t = "invalid" THEN Handler(1)     \* response.json()
    ELSE IF "setex" \in fails THEN Handler(1)
    ELSE Return(resp.body,
                RedisSetex(st, t, cache_key, CACHE_TTLS.market_data,
                           json_dumps(resp.body)),
                1, 0)

Svc_get_coin_by_name(st, t, name, resp, fails) ==
    LET cache_key == get_cache_key(str_coin, name) IN
    IF "coin_get" \in fails THEN Return(None, st, 0, 0)   \* except Exception
    ELSE LET cached_data == RedisGet(st, t, cache_key) IN
    IF Truthy(cached_data) THEN Return(json_loads(cached_data), st, 0, 0)
    ELSE IF resp.status = 0 THEN Return(None, st, 1, 0)   \* RequestException
    ELSE IF resp.status = 200 THEN
        IF resp.body.t = "invalid" THEN Return(None, st, 1, 0)
        ELSE IF Truthy(resp.body) THEN
            IF "coin_setex" \in fails THEN Return(None, st, 1, 0)
            ELSE Return(resp.body.v[1],
                        RedisSetex(st, t, cache_key, CACHE_TTLS.coin_data,
                                   json_dumps(resp.body.v[1])),
                        1, 0)
        ELSE Return(None, st, 1, 0)
    ELSE Return(None, st, 1, 0)                           \* logged, falls through

---------------------------------------------------------------------------
(* Market Data Gateway, backend/main.py                                    *)

\* a gateway that asks the upstream before it looks in the cache
Main_get_market_data_FetchFirst(st, t, vs_currency, limit, resp, fails) ==
    [Svc_get_market_data(st, t, vs_currency, limit, resp, fails) EXCEPT !.reqs = 1]

\* a gateway that returns fresh data without the SETEX
Main_get_market_data_NoSetex(st, t, vs_currency, limit, resp, fails) ==
    [Svc_get_market_data(st, t, vs_currency, limit, resp, fails) EXCEPT !.store = st]

\* a gateway that stores what it returns when the upstream answers 429
Main_get_market_data_CacheOn429(st, t, vs_currency, limit, resp, fails) ==
    LET o == Svc_get_market_data(st, t, vs_currency, limit, resp, fails)
        cache_key == get_cache_key(str_market_data,
                                   vs_currency \o <<"_">> \o IntToStr(limit))
    IN IF resp.status = 429 /\ o.reqs = 1 /\ ~o.raised
       THEN [o EXCEPT !.store = RedisSetex(st, t, cache_key, CACHE_TTLS.market_data,
                                           json_dumps(o.ret))]
       ELSE o

\* main.py:197-252 is, statement for statement, services.py:73-128
Main_get_market_data(st, t, vs_currency, limit, resp, fails) ==
    LET cache_key == get_cache_key(str_market_data,
                                   vs_currency \o <<"_">> \o IntToStr(limit))
        Handler(reqs) ==
            IF "getstale" \in fails THEN Raise(st, reqs, 0)
            ELSE LET cached_data == RedisGet(st, t, cache_key) IN
                 IF Truthy(cached_data)
                 THEN Return(json_loads(cached_data), st, reqs, 0)
                 ELSE Return(PyList(<<>>), st, reqs, 0)
    IN
    IF "get" \in fails THEN Handler(0)
    ELSE LET cached_data == RedisGet(st, t, cache_key) IN
    IF Truthy(cached_data) THEN Return(json_loads(cached_data), st, 0, 0)
    ELSE IF resp.status = 0 THEN Handler(1)
    ELSE IF resp.status = 429 THEN
        IF "get429" \in fails THEN Handler(1)
        ELSE LET stale == RedisGet(st, t, cache_key) IN
             IF Truthy(stale) THEN Return(json_loads(stale), st, 1, 0)
             ELSE Return(PyList(<<>>), st, 1, 0)
    ELSE IF resp.status >= 400 THEN Handler(1)
    ELSE IF resp.body.t = "invalid" THEN Handler(1)
    ELSE IF "setex" \in fails THEN Handler(1)
    ELSE Return(resp.body,
                RedisSetex(st, t, cache_key, Main_CACHE_TTLS.market_data,
                           json_dumps(resp.body)),
                1, 0)

\* next((coin for coin in market_data if id or symbol matches), None)
FirstMatch(market_data, name_lower) ==
    LET hits == { i \in 1..Len(market_data) :
                    \/ Lower(market_data[i].id) = name_lower
                    \/ Lower(market_data[i].symbol) = name_lower }
    IN IF hits = {} THEN None
       ELSE market_data[CHOOSE i \in hits : \A j \in hits : i <= j]

Main_get_coin_by_name(st, t, name, resp, fails) ==
    LET cache_key == get_cache_key(str_coin, name)
        \* except Exception: try to get stale data from cache
        Handler(st1, reqs) ==
            IF "coin_getstale" \in fails THEN Raise(st1, reqs, 0)
            ELSE LET cached_data == RedisGet(st1, t, cache_key) IN
                 IF Truthy(cached_data) /\ cached_data # str_null
                 THEN Return(json_loads(cached_data), st1, reqs, 0)
                 ELSE Return(None, st1, reqs, 0)
    IN
    IF "coin_get" \in fails THEN Handler(st, 0)
    ELSE LET cached_data == RedisGet(st, t, cache_key) IN
    IF Truthy(cached_data) THEN Return(json_loads(cached_data), st, 0, 0)
    ELSE LET m == Main_get_market_data(st, t, str_usd, 100, resp, fails) IN
    IF m.raised THEN Handler(m.store, m.reqs)
    ELSE LET coin == FirstMatch(m.ret.v, Lower(name)) IN
    IF "coin_setex" \in fails THEN Handler(m.store, m.reqs)
    ELSE Return(coin,
                RedisSetex(m.store, t, cache_key, REDIS_CACHE_TTL,
                           IF Truthy(coin) THEN json_dumps(coin) ELSE str_null),
                m.reqs, 0)

---------------------------------------------------------------------------
(* Sentiment analysis: the classifier and analyze_sentiment_with_context   *)

Min(a, b) == IF a < b THEN a ELSE b

\* {"label": ..., "score": ...}, the score in thousandths
SentimentResult(label, score) == [t |-> "dict", label |-> label, score |-> score]

\* sentiment_pipeline(question) raised
ClassifierError == [t |-> "error"]

\* what sentiment_pipeline(question)[0] can be: the label as the model's
\* configuration spells it, the score a softmax probability
ClassifierOutputs ==
    { SentimentResult(l, sc) : l \in {str_Positive, str_NEGATIVE}, sc \in {600, 990} }
    \cup { ClassifierError }

\* a coin object that also carries the absolute 24h change
CoinWithChange(id, symbol, pct, change) ==
    [t |-> "dict", id |-> id, symbol |-> symbol,
     price_change_percentage_24h |-> pct, price_change_24h |-> change]

\* "key in context"
HasKey(d, k) == d.t = "dict" /\ k \in DOMAIN d

\* any(term in question.lower() for term in terms)
AnyTermIn(terms, question) == \E term \in terms : Contains(Lower(question), term)

\* redis_client.get / setex calls of analyze_sentiment_with_context
SentimentStoreOps == <<"sent_get", "sent_setex">>

Svc_analyze_sentiment_with_context_Recompute(st, t, question, context, out, fails) ==
    LET cache_key == get_cache_key(str_sentiment, question) IN
    IF "sent_get" \in fails THEN Raise(st, 0, 0)
    ELSE IF out = ClassifierError THEN Raise(st, 0, 1)
    ELSE IF "sent_setex" \in fails THEN Raise(st, 0, 1)
    ELSE Return(out, RedisSetex(st, t, cache_key, CACHE_TTLS.sentiment, json_dumps(out)),
                0, 1)

\* backend/services.py
Svc_analyze_sentiment_with_context(st, t, question, context, out, fails) ==
    LET cache_key == get_cache_key(str_sentiment, question) IN
    IF "sent_get" \in fails THEN Raise(st, 0, 0)
    ELSE LET cached_result == RedisGet(st, t, cache_key) IN
    IF Truthy(cached_result) THEN Return(json_loads(cached_result), st, 0, 0)
    ELSE IF out = ClassifierError THEN Raise(st, 0, 1)
    ELSE LET aligned ==
                 /\ Truthy(context) /\ HasKey(context, "price_change_24h")
                 /\ \/ out.label = str_POSITIVE /\ context.price_change_24h > 0
                    \/ out.label = str_NEGATIVE /\ context.price_change_24h < 0
             \* min(score * 1.1, 0.95)
             result == IF aligned
                       THEN [out EXCEPT !.score = Min((out.score * 11) \div 10, 950)]
                       ELSE out
         IN
    IF "sent_setex" \in fails THEN Raise(st, 0, 1)
    ELSE Return(result,
                RedisSetex(st, t, cache_key, CACHE_TTLS.sentiment, json_dumps(result)),
                0, 1)

\* an analysis that applies the label override to the cached entry as well
Main_analyze_sentiment_with_context_AdjustCached(st, t, question, context, out, fails) ==
    LET cache_key == get_cache_key(str_sentiment, question)
        cached_result == RedisGet(st, t, cache_key)
        overridden(r) ==
            IF /\ Truthy(context) /\ HasKey(context, "price_change_percentage_24h")
               /\ r.label = str_POSITIVE
               /\ context.price_change_percentage_24h < -5
            THEN SentimentResult(str_NEGATIVE, Min(r.score, 800))
            ELSE r
    IN
    IF "sent_get" \in fails THEN Raise(st, 0, 0)
    ELSE IF Truthy(cached_result)
    THEN Return(overridden(json_loads(cached_result)), st, 0, 0)
    ELSE IF out = ClassifierError \/ "sent_setex" \in fails THEN Raise(st, 0, 1)
    ELSE LET final_result == overridden(SentimentResult(Upper(out.label),
                                                        Min(out.score, 950)))
         IN Return(final_result,
                   RedisSetex(st, t, cache_key, Main_CACHE_TTLS.sentiment,
                              json_dumps(final_result)),
                   0, 1)

\* backend/main.py
Main_analyze_sentiment_with_context(st, t, question, context, out, fails) ==
    LET cache_key == get_cache_key(str_sentiment, question) IN
    IF "sent_get" \in fails THEN Raise(st, 0, 0)
    ELSE LET cached_result == RedisGet(st, t, cache_key) IN
    IF Truthy(cached_result) THEN Return(json_loads(cached_result), st, 0, 0)
    ELSE IF out = ClassifierError THEN Raise(st, 0, 1)
    ELSE LET sentiment0 == Upper(out.label)
             confidence0 == Min(out.score, 950)
             has_change == /\ Truthy(context)
                           /\ HasKey(context, "price_change_percentage_24h")
             to_negative ==
                 /\ has_change
                 /\ sentiment0 = str_POSITIVE
                 /\ context.price_change_percentage_24h < -5
                 /\ AnyTermIn({str_price, str_trend, str_going_up}, question)
             to_positive ==
                 /\ has_change
                 /\ ~to_negative
                 /\ sentiment0 = str_NEGATIVE
                 /\ context.price_change_percentage_24h > 5
                 /\ AnyTermIn({str_price, str_trend, str_going_down}, question)
             sentiment1 == IF to_negative THEN str_NEGATIVE
                           ELSE IF to_positive THEN str_POSITIVE ELSE sentiment0
             confidence1 == IF to_negative \/ to_positive
                            THEN Min(confidence0, 800) ELSE confidence0
             confidence == IF AnyTermIn({str_predict, str_forecast, str_future}, question)
                           THEN Min(confidence1, 700) ELSE confidence1
             final_result == SentimentResult(sentiment1, confidence)
         IN
    IF "sent_setex" \in fails THEN Raise(st, 0, 1)
    ELSE Return(final_result,
                RedisSetex(st, t, cache_key, Main_CACHE_TTLS.sentiment,
                           json_dumps(final_result)),
                0, 1)

---------------------------------------------------------------------------
(* State machines: calls arrive in any order, with any upstream outcome    *)
(* and any store failure, and the clock advances                           *)

Currencies == {str_usd, str_USD}
Limits == {10, 100}
CoinNames == {str_bitcoin, str_pi_network}

MarketKey(vs_currency, limit) ==
    get_cache_key(str_market_data, vs_currency \o <<"_">> \o IntToStr(limit))

IsMarketKey(k) ==
    Len(k) > Len(str_market_data) /\ SubSeq(k, 1, Len(str_market_data)) = str_market_data

\* history of SETEX on market_data keys: the text last written under each key
WrittenAfter(w, st0, st1) ==
    LET set == { k \in DOMAIN st1 :
                   IsMarketKey(k) /\ (k \notin DOMAIN st0 \/ st0[k] # st1[k]) }
    IN [k \in (DOMAIN w) \cup set |-> IF k \in set THEN st1[k].val ELSE w[k]]

NoResponse == [status |-> -1, body |-> None]

\* the record of a call: what the store held under its key before, the answer of the
\* upstream (or of the classifier) if it was asked, whether some store operation
\* was failing during the call and whether the first read was, and the outcome
CallRecord(op, impl, key, resp, fails, firstRead, o) ==
    [op |-> op, impl |-> impl, key |-> key, pre |-> RedisGet(store, now, key),
     resp |-> IF o.reqs + o.clf = 0 THEN NoResponse ELSE resp,
     storefail |-> fails # {}, readfail |-> firstRead \in fails,
     ret |-> o.ret, raised |-> o.raised, reqs |-> o.reqs, clf |-> o.clf]

NoCall(op) ==
    [op |-> op, impl |-> "none", key |-> <<>>, pre |-> None, resp |-> NoResponse,
     storefail |-> FALSE, readfail |-> FALSE,
     ret |-> None, raised |-> FALSE, reqs |-> 0, clf |-> 0]

SvcGetMarketData ==
    \E cur \in Currencies, limit \in Limits :
    \E resp \in MarketResponses(limit), fails \in FailurePatterns(MarketStoreOps) :
        LET o == Svc_get_market_data(store, now, cur, limit, resp, fails)
        IN /\ store' = o.store
           /\ written' = WrittenAfter(written, store, o.store)
           /\ UNCHANGED <<svc, task>>
           /\ now' = now
           /\ last' = CallRecord("get_market_data", "services",
                                MarketKey(cur, limit), resp, fails, "get", o)

MainGetMarketData ==
    \E cur \in Currencies, limit \in Limits :
    \E resp \in MarketResponses(limit), fails \in FailurePatterns(MarketStoreOps) :
        LET o == Main_get_market_data(store, now, cur, limit, resp, fails)
        IN /\ store' = o.store
           /\ written' = WrittenAfter(written, store, o.store)
           /\ UNCHANGED <<svc, task>>
           /\ now' = now
           /\ last' = CallRecord("get_market_data", "main",
                                MarketKey(cur, limit), resp, fails, "get", o)

SvcGetCoinByName ==
    \E name \in CoinNames :
    \E resp \in CoinResponses(name), fails \in FailurePatterns(SvcCoinStoreOps) :
        LET o == Svc_get_coin_by_name(store, now, name, resp, fails)
        IN /\ store' = o.store
           /\ written' = WrittenAfter(written, store, o.store)
           /\ UNCHANGED <<svc, task>>
           /\ now' = now
           /\ last' = CallRecord("get_coin_by_name", "services",
                                get_cache_key(str_coin, name), resp, fails,
                                "coin_get", o)

MainGetCoinByName ==
    \E name \in CoinNames :
    \E resp \in MarketResponses(100),
       fails \in FailurePatterns(MainCoinStoreOps) :
        LET o == Main_get_coin_by_name(store, now, name, resp, fails)
        IN /\ store' = o.store
           /\ written' = WrittenAfter(written, store, o.store)
           /\ UNCHANGED <<svc, task>>
           /\ now' = now
           /\ last' = CallRecord("get_coin_by_name", "main",
                                get_cache_key(str_coin, name), resp, fails,
                                "coin_get", o)

\* time passes and Redis expires what is due
Tick(step, max) ==
    /\ now + step <= max
    /\ now' = now + step
    /\ store' = RedisExpire(store, now + step)
    /\ written' = written
    /\ UNCHANGED <<svc, task>>
    /\ last' = NoCall("tick")

TickGw == Tick(TickGateway, MaxTimeGateway)

\* questions as the callers pass them, and the coin context they attach
Questions == {str_BTC_trend, str_btc_future}

Contexts ==
    { None,
      Coin(str_bitcoin, str_btc, -6),
      CoinWithChange(str_bitcoin, str_btc, 6, -1) }

SvcAnalyzeSentiment ==
    \E question \in Questions, context \in Contexts :
    \E out \in ClassifierOutputs, fails \in FailurePatterns(SentimentStoreOps) :
        LET o == Svc_analyze_sentiment_with_context(store, now, question, context,
                                                    out, fails)
        IN /\ store' = o.store
           /\ written' = WrittenAfter(written, store, o.store)
           /\ UNCHANGED <<svc, task>>
           /\ now' = now
           /\ last' = CallRecord("analyze_sentiment_with_context", "services",
                                get_cache_key(str_sentiment, question), out, fails,
                                "sent_get", o)

MainAnalyzeSentiment ==
    \E question \in Questions, context \in Contexts :
    \E out \in ClassifierOutputs, fails \in FailurePatterns(SentimentStoreOps) :
        LET o == Main_analyze_sentiment_with_context(store, now, question, context,
                                                     out, fails)
        IN /\ store' = o.store
           /\ written' = WrittenAfter(written, store, o.store)
           /\ UNCHANGED <<svc, task>>
           /\ now' = now
           /\ last' = CallRecord("analyze_sentiment_with_context", "main",
                                get_cache_key(str_sentiment, question), out, fails,
                                "sent_get", o)

TickSent == Tick(TickSentiment, MaxTimeSentiment)

\* time.time() when the clock of the model reads 0
StartTime == 1000

\* "no outbound request yet" in the request history
NoRequest == -1

\* CryptoDataService.__init__: last_request_time = 0; with it the history of the
\* process's outbound requests: the time of the latest and its distance to the
\* one before
CryptoDataService(prev, gap) == [last_request_time |-> 0, prev |-> prev, gap |-> gap]

\* no question submitted yet
NoTask ==
    [state |-> "NONE", question |-> <<>>, env |-> <<>>, attempts |-> 0, retries |-> 0,
     delays |-> 0, result |-> None, request |-> "none", submitted_at |-> 0,
     done_at |-> 0]

Init ==
    /\ store = EmptyStore
    /\ now = 0
    /\ written = EmptyStore
    /\ last = NoCall("init")
    /\ svc = CryptoDataService(NoRequest, NoRequest)
    /\ task = NoTask

\* get_market_data under both generations of the gateway
NextMarket ==
    \/ SvcGetMarketData
    \/ MainGetMarketData
    \/ TickGw

SpecMarket == Init /\ [][NextMarket]_vars

\* get_coin_by_name under both generations of the gateway
NextCoin ==
    \/ SvcGetCoinByName
    \/ MainGetCoinByName
    \/ TickGw

SpecCoin == Init /\ [][NextCoin]_vars

\* the sentiment analysis under both generations of the backend
NextSentiment ==
    \/ SvcAnalyzeSentiment
    \/ MainAnalyzeSentiment
    \/ TickSent

SpecSentiment == Init /\ [][NextSentiment]_vars

---------------------------------------------------------------------------
(* Claims about get_market_data (SpecMarket)                               *)

\* every way get_market_data can be called in the current state
MarketInputs ==
    { [impl |-> impl, cur |-> cur, limit |-> limit, resp |-> resp, fails |-> fails] :
        impl \in {"services", "main"}, cur \in Currencies, limit \in Limits,
        resp \in MarketResponses(100), fails \in FailurePatterns(MarketStoreOps) }

RunMarket(i, st, t) ==
    IF i.impl = "services"
    THEN Svc_get_market_data(st, t, i.cur, i.limit, i.resp, i.fails)
    ELSE Main_get_market_data(st, t, i.cur, i.limit, i.resp, i.fails)

\* the upstream answered 2xx with a decodable array
Fetched(resp) == resp.status = 200 /\ resp.body.t = "list"

\* C1: get_market_data never raises to its caller, whatever the upstream request
\* and the store operations do; it returns a sequence, and the sequence is empty
\* when neither the store nor the upstream gave data.
C1_NeverRaises ==
    last.op = "get_market_data" =>
        /\ ~last.raised
        /\ last.ret.t = "list"
        /\ (~Truthy(last.pre) /\ ~Fetched(last.resp)) => last.ret = PyList(<<>>)

\* C3: stale-on-failure.  A non-empty snapshot was written under the key earlier and
\* has passed its TTL (the store no longer returns it), the call therefore goes
\* upstream and the fetch fails (429 or any other failure), the store itself
\* working: the call returns the snapshot that was written, not an empty sequence.
C3_StaleOnFailure ==
    ( /\ last.op = "get_market_data"
      /\ last.key \in DOMAIN written
      /\ Truthy(json_loads(written[last.key]))
      /\ ~Truthy(last.pre)
      /\ ~last.storefail
      /\ last.reqs = 1
      /\ ~Fetched(last.resp) )
    => (~last.raised /\ last.ret = json_loads(written[last.key]))

\* C4: on a market_data cache hit for (currency, limit) the call returns the cached
\* snapshot and performs no upstream request.
C4_HitServedWithoutUpstream ==
    \A i \in MarketInputs :
        LET cached == RedisGet(store, now, MarketKey(i.cur, i.limit))
            o == RunMarket(i, store, now)
        IN ("get" \notin i.fails /\ Truthy(cached)) =>
               /\ ~o.raised
               /\ o.ret = json_loads(cached)
               /\ o.reqs = 0

\* a get_market_data call found its key in the store and answered from it
C4_Witness ==
    /\ last.op = "get_market_data"
    /\ ~last.storefail
    /\ Truthy(last.pre)
    /\ last.ret = json_loads(last.pre)
    /\ Len(last.ret.v) > 0
    /\ last.reqs = 0

\* C5: the upstream answers 429 and the store has no entry for the key: the call
\* returns an empty sequence, raises nothing, and leaves the key without an entry.
C5_RateLimitedNoEntry ==
    ( /\ last.op = "get_market_data"
      /\ last.resp.status = 429
      /\ ~Truthy(last.pre) )
    => /\ ~last.raised
       /\ last.ret = PyList(<<>>)
       /\ RedisGet(store, now, last.key) = None

\* C6: on a miss followed by a successful upstream response (the store carrying out
\* the read and the write), the call writes exactly that response under the key of
\* (currency, limit), with the market_data TTL, and returns it; any later call for
\* the same (currency, limit) before the TTL is over returns an equal snapshot from
\* the store, without an upstream request.
C6_MissFetchStoreReturn ==
    \A i \in MarketInputs :
        LET key == MarketKey(i.cur, i.limit)
            o == RunMarket(i, store, now)
        IN ( /\ i.fails = {}
             /\ ~Truthy(RedisGet(store, now, key))
             /\ Fetched(i.resp) )
           => /\ ~o.raised
              /\ o.ret = i.resp.body
              /\ o.reqs = 1
              /\ o.store = RedisSetex(store, now, key, CACHE_TTLS.market_data,
                                      json_dumps(i.resp.body))
              /\ \A j \in MarketInputs :
                 \A t2 \in {now, now + CACHE_TTLS.market_data - 1} :
                    ( /\ j.fails = {}
                      /\ Lower(j.cur) = Lower(i.cur)
                      /\ j.limit = i.limit )
                    => LET o2 == RunMarket(j, o.store, t2)
                       IN ~o2.raised /\ o2.ret = i.resp.body /\ o2.reqs = 0

\* a get_market_data call missed, fetched a non-empty snapshot, returned it and left
\* it in the store
C6_Witness ==
    /\ last.op = "get_market_data"
    /\ ~last.storefail
    /\ ~Truthy(last.pre)
    /\ Fetched(last.resp)
    /\ Len(last.resp.body.v) > 0
    /\ last.ret = last.resp.body
    /\ RedisGet(store, now, last.key) = json_dumps(last.resp.body)

---------------------------------------------------------------------------
(* Claims about get_coin_by_name (SpecCoin)                                *)

\* every way get_coin_by_name can be called
CoinInputs ==
    { [impl |-> "services", name |-> name, resp |-> resp, fails |-> fails] :
        name \in CoinNames, resp \in UNION { CoinResponses(n) : n \in CoinNames },
        fails \in FailurePatterns(SvcCoinStoreOps) }
    \cup
    { [impl |-> "main", name |-> name, resp |-> resp, fails |-> fails] :
        name \in CoinNames, resp \in MarketResponses(100),
        fails \in FailurePatterns(MainCoinStoreOps) }

RunCoin(i, st, t) ==
    IF i.impl = "services"
    THEN Svc_get_coin_by_name(st, t, i.name, i.resp, i.fails)
    ELSE Main_get_coin_by_name(st, t, i.name, i.resp, i.fails)

\* the identifier part of a coin cache key
CoinOfKey(key) == SubSeq(key, Len(str_coin) + 2, Len(key))

\* C2: negative caching.  Once get_coin_by_name(id) has run for an identifier that
\* matches nothing upstream (the upstream answered, the store worked), the coin
\* cache holds the negative sentinel under the key, which is neither a miss nor a
\* snapshot, and every further get_coin_by_name(id) within the coin TTL returns
\* absent without an upstream request.
C2_NegativeCaching ==
    ( /\ last.op = "get_coin_by_name"
      /\ ~last.storefail
      /\ ~Truthy(last.pre)
      /\ Fetched(last.resp)
      /\ FirstMatch(last.resp.body.v, CoinOfKey(last.key)) = None )
    => /\ RedisGet(store, now, last.key) = str_null
       /\ str_null # None
       /\ \A c \in UNION { { w[n] : n \in 1..Len(w) } : w \in Worlds } :
              str_null # json_dumps(c)
       /\ \A j \in CoinInputs :
          \A t2 \in {now, now + CACHE_TTLS.coin_data - 1} :
             (j.fails = {} /\ Lower(j.name) = CoinOfKey(last.key))
             => LET o2 == RunCoin(j, store, t2)
                IN ~o2.raised /\ o2.ret = None /\ o2.reqs = 0

---------------------------------------------------------------------------
(* Claims about the sentiment analysis (SpecSentiment)                     *)

\* every way the sentiment analysis can be called in the current state
SentimentInputs ==
    { [impl |-> impl, question |-> q, context |-> c, out |-> out, fails |-> fails] :
        impl \in {"services", "main"}, q \in Questions, c \in Contexts,
        out \in ClassifierOutputs, fails \in FailurePatterns(SentimentStoreOps) }

RunSentiment(i, st, t) ==
    IF i.impl = "services"
    THEN Svc_analyze_sentiment_with_context(st, t, i.question, i.context, i.out, i.fails)
    ELSE Main_analyze_sentiment_with_context(st, t, i.question, i.context, i.out, i.fails)

\* the key belongs to a question with a prediction phrase
PredictionKey(key) == AnyTermIn({str_predict, str_forecast, str_future}, key)

StandardLabels == {str_POSITIVE, str_NEGATIVE, str_NEUTRAL}

\* C7: a failing read of the store is treated as a miss: the call goes on to fetch
\* or compute the value (it asks the upstream or the classifier) and the store's
\* failure does not reach the caller.
C7_StoreFailureIsAMiss ==
    (last.op = "analyze_sentiment_with_context" /\ last.readfail)
    => (last.reqs + last.clf = 1 /\ (last.resp # ClassifierError => ~last.raised))

\* C8: every result the sentiment analysis returns, computed or read from the cache,
\* has a score in [0, 0.95], and in [0, 0.7] when the question has a prediction
\* phrase.
C8_ScoreBounds ==
    (last.op = "analyze_sentiment_with_context" /\ ~last.raised)
    => /\ last.ret.score \in 0..950
       /\ PredictionKey(last.key) => last.ret.score \in 0..700

\* C9: on a sentiment cache hit for the question the analysis returns the cached
\* result verbatim and does not run the classifier; on a miss it runs the classifier
\* exactly once.
C9_HitVerbatimMissOnce ==
    \A i \in SentimentInputs :
        LET cached == RedisGet(store, now, get_cache_key(str_sentiment, i.question))
            o == RunSentiment(i, store, now)
        IN "sent_get" \notin i.fails =>
               /\ cached # None =>
                      (~o.raised /\ o.ret = json_loads(cached) /\ o.clf = 0
                       /\ o.store = store)
               /\ cached = None => o.clf = 1

\* a call found the question's result in the store and returned it without running
\* the classifier
C9_Witness ==
    /\ last.op = "analyze_sentiment_with_context"
    /\ last.pre # None
    /\ ~last.raised
    /\ last.ret = json_loads(last.pre)
    /\ last.clf = 0

\* C10: what a miss writes to the sentiment cache is the result the call returns and
\* is the adjusted result (label standardised, score capped, prediction ceiling
\* applied), not the classifier's raw output; the same question asked again within
\* the TTL gets an equal result.
C10_CachedIsAdjusted ==
    ( /\ last.op = "analyze_sentiment_with_context"
      /\ last.clf = 1
      /\ ~last.raised )
    => LET stored == RedisGet(store, now, last.key) IN
       /\ stored = json_dumps(last.ret)
       /\ json_loads(stored).label \in StandardLabels
       /\ json_loads(stored).score <= 950
       /\ PredictionKey(last.key) => json_loads(stored).score <= 700
       /\ \A i \in SentimentInputs, t2 \in {now, now + CACHE_TTLS.sentiment - 1} :
              (get_cache_key(str_sentiment, i.question) = last.key /\ i.fails = {})
              => RunSentiment(i, store, t2).ret = last.ret

\* C20: label override.  On a sentiment miss with a coin snapshot as context: a
\* standardised POSITIVE label with a 24h change below -5 on a question that mentions
\* price or trend becomes NEGATIVE with score at most 0.8; a NEGATIVE label with a
\* change above +5 becomes POSITIVE with score at most 0.8; in every other case the
\* label is the classifier's label, standardised.
C20_LabelOverride ==
    \A i \in SentimentInputs :
        LET o == RunSentiment(i, store, now)
            label == Upper(i.out.label)
            change == i.context.price_change_percentage_24h
            mentions == AnyTermIn({str_price, str_trend}, i.question)
        IN ( /\ i.fails = {}
             /\ RedisGet(store, now, get_cache_key(str_sentiment, i.question)) = None
             /\ i.out # ClassifierError
             /\ i.context.t = "dict" )
           => /\ ~o.raised
              /\ IF label = str_POSITIVE /\ change < -5 /\ mentions
                 THEN o.ret.label = str_NEGATIVE /\ o.ret.score <= 800
                 ELSE IF label = str_NEGATIVE /\ change > 5 /\ mentions
                 THEN o.ret.label = str_POSITIVE /\ o.ret.score <= 800
                 ELSE o.ret.label = label

---------------------------------------------------------------------------
(* Claims about the TTL of what is written (SpecCoin)                      *)

\* C18: a cache write uses the TTL of the namespace of its key.  A get_coin_by_name
\* call that found no entry under its coin key and left one (a snapshot or the
\* negative sentinel) wrote it with the coin_data TTL.
C18_WritesUseNamespaceTTL ==
    ( /\ last.op = "get_coin_by_name"
      /\ last.pre = None
      /\ last.key \in DOMAIN store )
    => store[last.key].exp = now + CACHE_TTLS.coin_data

---------------------------------------------------------------------------
(* Cache keys: the four namespaces written and read through get_cache_key  *)

Namespaces == {str_market_data, str_coin, str_sentiment, str_full_response}

\* the TTL the writers of a namespace pass to SETEX
NamespaceTTL(ns) ==
    CASE ns = str_market_data -> CACHE_TTLS.market_data
      [] ns = str_coin -> CACHE_TTLS.coin_data
      [] ns = str_sentiment -> CACHE_TTLS.sentiment
      [] OTHER -> CACHE_TTLS.full_response

\* identifiers the callers write under
WrittenIds == {str_BTC, str_btc, str_usd}

\* characters of the short identifiers: a letter in both cases and the separators
\* that keys themselves contain
IdAlphabet == {"c", "C", ":", "_"}

\* every spelling of s that differs from it only in letter case
AllCases(s) ==
    { v \in [1..Len(s) -> UNION { {LowerChar(s[n]), UpperChar(s[n])} : n \in 1..Len(s) }] :
        \A n \in 1..Len(s) : v[n] \in {LowerChar(s[n]), UpperChar(s[n])} }

Identifiers ==
    UNION { [1..k -> IdAlphabet] : k \in 1..MaxIdLen }
    \cup UNION { AllCases(w) : w \in WrittenIds }

\* the two identifiers differ at most in letter case
SameIgnoringCase(a, b) ==
    /\ Len(a) = Len(b)
    /\ \A n \in 1..Len(a) : b[n] \in {a[n], LowerChar(a[n]), UpperChar(a[n])}
                            /\ a[n] \in {b[n], LowerChar(b[n]), UpperChar(b[n])}

\* the key of every (namespace, identifier)
KeyOf == [ns \in Namespaces, id \in Identifiers |-> get_cache_key(ns, id)]

\* the (namespace, identifier, identifier) with identifiers equal up to letter case
\* and different keys
CaseSplitKeys ==
    { x \in Namespaces \X Identifiers \X Identifiers :
        SameIgnoringCase(x[2], x[3]) /\ KeyOf[x[1], x[2]] # KeyOf[x[1], x[3]] }

\* the keys that two distinct namespaces share
SharedKeys ==
    { x \in { y \in Namespaces \X Namespaces : y[1] # y[2] } :
        \E a \in Identifiers, b \in Identifiers : KeyOf[x[1], a] = KeyOf[x[2], b] }

\* what a writer stores: a JSON text that names the identifier it was written for
EntryFor(ns, id) == json_dumps([t |-> "dict", ns |-> ns, id |-> id])

\* redis_client.setex(get_cache_key(ns, id), ttl, ...)
CacheWrite ==
    \E ns \in Namespaces, id \in WrittenIds :
        /\ store' = RedisSetex(store, now, get_cache_key(ns, id), NamespaceTTL(ns),
                               EntryFor(ns, id))
        /\ written' = written
        /\ UNCHANGED <<svc, task>>
        /\ now' = now
        /\ last' = NoCall("setex")

NextKeys ==
    \/ CacheWrite

SpecKeys == Init /\ [][NextKeys]_vars

\* C16: get_cache_key is case-insensitive: in every namespace two identifiers that
\* differ only in letter case have the same key, and what was written under one
\* spelling is read, as a hit, under every other spelling.
C16_KeysIgnoreCase ==
    \A ns \in Namespaces :
        /\ CaseSplitKeys = {}
        /\ \A w \in WrittenIds :
               LET entry == RedisGet(store, now, KeyOf[ns, w]) IN
               entry # None =>
                   /\ SameIgnoringCase(json_loads(entry).id, w)
                   /\ \A b \in AllCases(w) : RedisGet(store, now, KeyOf[ns, b]) = entry

\* an entry written for BTC is what a read for btc finds
C16_Witness ==
    \E ns \in Namespaces :
        /\ RedisGet(store, now, KeyOf[ns, str_btc]) = EntryFor(ns, str_BTC)
        /\ KeyOf[ns, str_btc] = KeyOf[ns, str_BTC]

\* C17: the namespaces are independent keyspaces: keys of two distinct namespaces
\* differ whatever the identifiers, so a write in one namespace leaves every read in
\* another namespace as it was.
C17_NamespacesIndependent ==
    \A ns1 \in Namespaces, ns2 \in Namespaces :
        ns1 # ns2 =>
            /\ SharedKeys = {}
            /\ \A w \in WrittenIds :
                   LET after == RedisSetex(store, now, KeyOf[ns1, w], NamespaceTTL(ns1),
                                           EntryFor(ns1, w))
                   IN \A b \in Identifiers :
                          RedisGet(after, now, KeyOf[ns2, b])
                              = RedisGet(store, now, KeyOf[ns2, b])

\* two namespaces hold an entry for the same identifier, each its own
C17_Witness ==
    /\ RedisGet(store, now, KeyOf[str_coin, str_btc]) = EntryFor(str_coin, str_btc)
    /\ RedisGet(store, now, KeyOf[str_sentiment, str_btc])
           = EntryFor(str_sentiment, str_btc)

---------------------------------------------------------------------------
(* The politeness interval: outbound requests of one worker process        *)

min_request_interval == 2

\* _rate_limit: the seconds slept and the last_request_time it leaves, called at
\* clock t
rate_limit(last_request_time, t) ==
    LET current_time == StartTime + t
        time_since_last == current_time - last_request_time
        slept == IF time_since_last < min_request_interval
                 THEN min_request_interval - time_since_last ELSE 0
    IN [slept |-> slept, last_request_time |-> current_time + slept]

\* the request history after a request went out at the given time
Sent(s, time) ==
    [s EXCEPT !.prev = time,
              !.gap = IF s.prev = NoRequest THEN NoRequest ELSE time - s.prev]

\* get_market_data(limit) with the time it takes: on a miss _rate_limit may sleep
\* before the request goes out
TimedGetMarketData(s, st, t, limit, resp) ==
    LET probe == Svc_get_market_data(st, t, str_usd, limit, resp, {}) IN
    IF probe.reqs = 0 THEN [svc |-> s, store |-> st, now |-> t, ret |-> probe.ret]
    ELSE LET rl == rate_limit(s.last_request_time, t)
             t2 == t + rl.slept
             o == Svc_get_market_data(RedisExpire(st, t2), t2, str_usd, limit, resp, {})
         IN [svc |-> Sent([s EXCEPT !.last_request_time = rl.last_request_time],
                          StartTime + t2),
             store |-> o.store, now |-> t2, ret |-> o.ret]

\* get_coin_by_name(name) with the time it takes: the request goes out at once
TimedGetCoinByName(s, st, t, name, resp) ==
    LET o == Svc_get_coin_by_name(st, t, name, resp, {}) IN
    [svc |-> IF o.reqs = 0 THEN s ELSE Sent(s, StartTime + t),
     store |-> o.store, now |-> t, ret |-> o.ret]

\* the upstream answers in this specification: throttled, or one ranking
PoliteResponses(bodies) ==
    { [status |-> 429, body |-> None] } \cup { [status |-> 200, body |-> PyList(b)] : b \in bodies }

\* a task for a question that names a coin: a CryptoDataService of its own, then
\* get_coin_by_name
TaskCoinLookup ==
    \E resp \in PoliteResponses({<<Coin(str_bitcoin, str_btc, 6)>>}) :
        LET c == TimedGetCoinByName(CryptoDataService(svc.prev, svc.gap), store, now,
                                    str_bitcoin, resp)
        IN /\ svc' = c.svc
           /\ store' = c.store
           /\ now' = c.now
           /\ written' = written
           /\ last' = NoCall("task_coin")
           /\ task' = task

\* a task for a general question: a CryptoDataService of its own, get_market_data
\* for the metrics and, if the question asks for the market's sentiment,
\* get_market_data again for the text
TaskMarketOverview ==
    \E resp1 \in PoliteResponses({<<Coin(str_bitcoin, str_btc, 6)>>}),
       resp2 \in PoliteResponses({<<Coin(str_bitcoin, str_btc, 6)>>}),
       again \in BOOLEAN :
        LET c1 == TimedGetMarketData(CryptoDataService(svc.prev, svc.gap), store, now,
                                     10, resp1)
            c2 == IF again THEN TimedGetMarketData(c1.svc, c1.store, c1.now, 10, resp2)
                  ELSE c1
        IN /\ c2.now <= MaxTimePolite
           /\ svc' = c2.svc
           /\ store' = c2.store
           /\ now' = c2.now
           /\ written' = written
           /\ last' = NoCall("task_market")
           /\ task' = task

TickSecond == Tick(1, MaxTimePolite)

NextPolite ==
    \/ TaskCoinLookup
    \/ TaskMarketOverview
    \/ TickSecond

SpecPolite == Init /\ [][NextPolite]_vars

\* C15: politeness interval.  Within one worker process any two consecutive
\* outbound requests to the upstream API are at least min_request_interval apart,
\* whichever operation or task issued them.
C15_PolitenessInterval ==
    svc.gap # NoRequest => svc.gap >= min_request_interval

---------------------------------------------------------------------------
(* The question pipeline: context extraction, metrics, response text       *)

str_the_cryptocurrency_market ==
    <<"t","h","e"," ","c","r","y","p","t","o","c","u","r","r","e","n","c","y"," ","m","a","r","k","e","t">>

str_crypto_future == <<"c","r","y","p","t","o"," ","f","u","t","u","r","e">>
str_top == <<"t","o","p">>
str_market == <<"m","a","r","k","e","t">>
str_market_cap == <<"m","a","r","k","e","t"," ","c","a","p">>
str_volume == <<"v","o","l","u","m","e">>
str_prediction == <<"p","r","e","d","i","c","t","i","o","n">>
str_positive == <<"p","o","s","i","t","i","v","e">>
str_negative == <<"n","e","g","a","t","i","v","e">>

\* the keyword table in the order of the dict literal: <<keyword, context>>
CRYPTO_KEYWORDS ==
    <<
       <<<<"b","i","t","c","o","i","n">>,
         <<"b","i","t","c","o","i","n">>>>,
       <<<<"b","t","c">>,
         <<"b","i","t","c","o","i","n">>>>,
       <<<<"w","r","a","p","p","e","d"," ","b","i","t","c","o","i","n">>,
         <<"b","i","t","c","o","i","n">>>>,
       <<<<"b","i","t","c","o","i","n"," ","c","a","s","h">>,
         <<"b","i","t","c","o","i","n","-","c","a","s","h">>>>,
       <<<<"b","c","h">>,
         <<"b","i","t","c","o","i","n","-","c","a","s","h">>>>,
       <<<<"e","t","h","e","r","e","u","m">>,
         <<"e","t","h","e","r","e","u","m">>>>,
       <<<<"e","t","h">>,
         <<"e","t","h","e","r","e","u","m">>>>,
       <<<<"l","i","d","o"," ","s","t","a","k","e","d"," ","e","t","h","e","r">>,
         <<"e","t","h","e","r","e","u","m">>>>,
       <<<<"s","t","e","t","h">>,
         <<"e","t","h","e","r","e","u","m">>>>,
       <<<<"t","e","t","h","e","r">>,
         <<"t","e","t","h","e","r">>>>,
       <<<<"u","s","d","t">>,
         <<"t","e","t","h","e","r">>>>,
       <<<<"u","s","d","c">>,
         <<"u","s","d","-","c","o","i","n">>>>,
       <<<<"u","s","d"," ","c","o","i","n">>,
         <<"u","s","d","-","c","o","i","n">>>>,
       <<<<"d","a","i">>,
         <<"d","a","i">>>>,
       <<<<"e","t","h","e","n","a"," ","u","s","d","e">>,
         <<"e","t","h","e","n","a","-","u","s","d">>>>,
       <<<<"c","a","r","d","a","n","o">>,
         <<"c","a","r","d","a","n","o">>>>,
       <<<<"a","d","a">>,
         <<"c","a","r","d","a","n","o">>>>,
       <<<<"d","o","g","e","c","o","i","n">>,
         <<"d","o","g","e","c","o","i","n">>>>,
       <<<<"d","o","g","e">>,
         <<"d","o","g","e","c","o","i","n">>>>,
       <<<<"r","i","p","p","l","e">>,
         <<"r","i","p","p","l","e">>>>,
       <<<<"x","r","p">>,
         <<"r","i","p","p","l","e">>>>,
       <<<<"s","o","l","a","n","a">>,
         <<"s","o","l","a","n","a">>>>,
       <<<<"s","o","l">>,
         <<"s","o","l","a","n","a">>>>,
       <<<<"p","o","l","k","a","d","o","t">>,
         <<"p","o","l","k","a","d","o","t">>>>,
       <<<<"d","o","t">>,
         <<"p","o","l","k","a","d","o","t">>>>,
       <<<<"c","h","a","i","n","l","i","n","k">>,
         <<"c","h","a","i","n","l","i","n","k">>>>,
       <<<<"l","i","n","k">>,
         <<"c","h","a","i","n","l","i","n","k">>>>,
       <<<<"a","v","a","l","a","n","c","h","e">>,
         <<"a","v","a","l","a","n","c","h","e","-","2">>>>,
       <<<<"a","v","a","x">>,
         <<"a","v","a","l","a","n","c","h","e","-","2">>>>,
       <<<<"l","i","t","e","c","o","i","n">>,
         <<"l","i","t","e","c","o","i","n">>>>,
       <<<<"l","t","c">>,
         <<"l","i","t","e","c","o","i","n">>>>,
       <<<<"t","r","o","n">>,
         <<"t","r","o","n">>>>,
       <<<<"t","r","x">>,
         <<"t","r","o","n">>>>,
       <<<<"s","t","e","l","l","a","r">>,
         <<"s","t","e","l","l","a","r">>>>,
       <<<<"x","l","m">>,
         <<"s","t","e","l","l","a","r">>>>,
       <<<<"h","e","d","e","r","a">>,
         <<"h","e","d","e","r","a">>>>,
       <<<<"h","b","a","r">>,
         <<"h","e","d","e","r","a">>>>,
       <<<<"s","h","i","b","a"," ","i","n","u">>,
         <<"s","h","i","b","a","-","i","n","u">>>>,
       <<<<"s","h","i","b">>,
         <<"s","h","i","b","a","-","i","n","u">>>>,
       <<<<"l","e","o">>,
         <<"l","e","o","-","t","o","k","e","n">>>>,
       <<<<"m","a","n","t","r","a">>,
         <<"m","a","n","t","r","a","-","d","a","o">>>>,
       <<<<"o","m">>,
         <<"m","a","n","t","r","a","-","d","a","o">>>>,
       <<<<"s","u","i">>,
         <<"s","u","i">>>>,
       <<<<"t","o","n","c","o","i","n">>,
         <<"t","h","e","-","o","p","e","n","-","n","e","t","w","o","r","k">>>>,
       <<<<"t","o","n">>,
         <<"t","h","e","-","o","p","e","n","-","n","e","t","w","o","r","k">>>>,
       <<<<"p","i"," ","n","e","t","w","o","r","k">>,
         <<"p","i","-","n","e","t","w","o","r","k">>>>,
       <<<<"p","i">>,
         <<"p","i","-","n","e","t","w","o","r","k">>>>
    >>

\* the indices of the keywords that are substrings of the lower-cased question
KeywordHits(question_lower) ==
    { i \in 1..Len(CRYPTO_KEYWORDS) : Contains(question_lower, CRYPTO_KEYWORDS[i][1]) }

\* an extraction that prefers the longest matching keyword
CryptoContextOf_LongestMatch(question_lower) ==
    LET hits == KeywordHits(question_lower)
    IN IF hits = {} THEN str_the_cryptocurrency_market
       ELSE CRYPTO_KEYWORDS[CHOOSE i \in hits : \A j \in hits :
                               \/ Len(CRYPTO_KEYWORDS[j][1]) < Len(CRYPTO_KEYWORDS[i][1])
                               \/ /\ Len(CRYPTO_KEYWORDS[j][1]) = Len(CRYPTO_KEYWORDS[i][1])
                                  /\ i <= j][2]

\* for keyword in CRYPTO_KEYWORDS: if keyword in question_lower: ...; break
CryptoContextOf(question_lower) ==
    LET hits == { i \in 1..Len(CRYPTO_KEYWORDS) :
                    Contains(question_lower, CRYPTO_KEYWORDS[i][1]) }
    IN IF hits = {} THEN str_the_cryptocurrency_market
       ELSE CRYPTO_KEYWORDS[CHOOSE i \in hits : \A j \in hits : i <= j][2]

\* {} as metrics
EmptyMetrics == [t |-> "dict"]

Abs(x) == IF x < 0 THEN -x ELSE x

RECURSIVE SumChange(_)
\* sum(coin['price_change_percentage_24h'] for coin in market_data)
SumChange(coins) ==
    IF coins = <<>> THEN 0
    ELSE coins[1].price_change_percentage_24h + SumChange(Tail(coins))

\* get_coin_metrics, of the fields the coin objects of the model carry
get_coin_metrics(coin_data) ==
    [t |-> "dict", change24h |-> coin_data.price_change_percentage_24h]

\* get_market_overview_metrics: the mean change in hundredths of a percent and the
\* number of coins
get_market_overview_metrics(market_data) ==
    [t |-> "dict",
     avgChange24h |-> (SumChange(market_data.v) * 100) \div Len(market_data.v),
     coinsAnalyzed |-> Len(market_data.v)]

\* The sentences of a response: the template that was chosen and the values put
\* into it.

\* a composer whose bands count the bounds 5 and -5 as strong moves
generate_ai_response_InclusiveBands(question, sentiment, coin_data, st, Market) ==
    LET question_lower == Lower(question)
        price_change == coin_data.price_change_percentage_24h
        sentence(body) == [text |-> body, raised |-> FALSE, store |-> st, reqs |-> 0]
    IN
    IF Truthy(coin_data)
       /\ (Contains(question_lower, str_price) \/ Contains(question_lower, str_trend))
    THEN sentence([template |-> "is moving", name |-> coin_data.id,
                   desc |-> IF price_change >= 5
                            THEN "showing strong bullish momentum"
                            ELSE IF price_change > 2 THEN "trending positively"
                            ELSE IF price_change <= -5
                            THEN "showing significant bearish pressure"
                            ELSE IF price_change < -2 THEN "trending negatively"
                            ELSE "relatively stable",
                   direction |-> IF price_change > 0 THEN "up" ELSE "down",
                   change |-> Abs(price_change)])
    ELSE sentence([template |-> "mixed performance"])

\* generate_ai_response; Market[limit] is self.get_market_data(limit=limit) on the
\* store as it is when the text is composed, st
generate_ai_response(question, sentiment, coin_data, st, Market) ==
    LET question_lower == Lower(question)
        price_change == coin_data.price_change_percentage_24h
        price_direction == IF price_change > 0 THEN "up" ELSE "down"
        sentence(body) == [text |-> body, raised |-> FALSE, store |-> st, reqs |-> 0]
        from_market(m, body) ==
            IF m.raised THEN [text |-> None, raised |-> TRUE, store |-> m.store,
                              reqs |-> m.reqs]
            ELSE [text |-> body, raised |-> FALSE, store |-> m.store, reqs |-> m.reqs]
    IN
    IF Truthy(coin_data)
    THEN IF Contains(question_lower, str_price) \/ Contains(question_lower, str_trend)
         THEN sentence([template |-> "is moving", name |-> coin_data.id,
                        desc |-> IF price_change > 5
                                 THEN "showing strong bullish momentum"
                                 ELSE IF price_change > 2 THEN "trending positively"
                                 ELSE IF price_change < -5
                                 THEN "showing significant bearish pressure"
                                 ELSE IF price_change < -2 THEN "trending negatively"
                                 ELSE "relatively stable",
                        direction |-> price_direction, change |-> Abs(price_change)])
         ELSE IF Contains(question_lower, str_predict)
                 \/ Contains(question_lower, str_forecast)
         THEN sentence([template |-> "can't predict", name |-> coin_data.id,
                        direction |-> price_direction, change |-> Abs(price_change)])
         ELSE sentence([template |-> "market cap", name |-> coin_data.id,
                        change |-> price_change])
    ELSE IF Contains(question_lower, str_top)
            /\ \E num \in {<<"5">>, <<"1","0">>, <<"f","i","v","e">>, <<"t","e","n">>} :
                   Contains(question_lower, num)
         THEN LET m == Market[5] IN
              from_market(m, [template |-> "top 5",
                              coins |-> [n \in 1..Len(Take(m.ret.v, 5)) |-> m.ret.v[n].id]])
         ELSE IF Contains(question_lower, str_sentiment)
                 \/ Contains(question_lower, str_market)
         THEN LET m == Market[10]
                  positive_count ==
                      Cardinality({ n \in 1..Len(m.ret.v) :
                                      m.ret.v[n].price_change_percentage_24h > 0 })
              IN from_market(m, [template |-> "overall sentiment",
                                 mood |-> IF positive_count > 5 THEN "bullish"
                                          ELSE "bearish",
                                 positive |-> positive_count])
         ELSE sentence([template |-> "mixed performance"])

\* utils.cap_confidence, which services.py imports
cap_confidence(confidence) == Min(confidence, 950)

\* main.py get_sentiment_explanation
Main_get_sentiment_explanation(sentiment, confidence, coin_data) ==
    LET sentiment_lower == Lower(sentiment)
        price_change == coin_data.price_change_percentage_24h
    IN
    IF ~Truthy(coin_data)
    THEN [template |-> "language",
          tone |-> IF sentiment_lower = str_positive THEN "positive"
                   ELSE IF sentiment_lower = str_negative THEN "negative"
                   ELSE "neutral"]
    ELSE IF sentiment_lower = str_positive
         THEN IF price_change > 0
              THEN [template |-> "positive due to increase", change |-> price_change]
              ELSE [template |-> "positive despite movement"]
    ELSE IF sentiment_lower = str_negative
         THEN IF price_change < 0
              THEN [template |-> "negative due to decrease", change |-> Abs(price_change)]
              ELSE [template |-> "negative despite movement"]
    ELSE [template |-> "neutral balance"]

\* services.py get_sentiment_explanation
Svc_get_sentiment_explanation(sentiment, confidence0, coin_data) ==
    LET confidence == cap_confidence(confidence0)
        sentiment_lower == Lower(sentiment)
        confidence_desc == IF confidence > 800 THEN "strongly"
                           ELSE IF confidence > 600 THEN "moderately" ELSE "slightly"
        price_change == coin_data.price_change_percentage_24h
    IN
    IF ~Truthy(coin_data)
    THEN IF sentiment_lower = str_positive
         THEN [template |-> "appears positive", desc |-> confidence_desc,
               confidence |-> confidence]
         ELSE IF sentiment_lower = str_negative
         THEN [template |-> "appears negative", desc |-> confidence_desc,
               confidence |-> confidence]
         ELSE [template |-> "appears neutral", confidence |-> confidence]
    ELSE IF sentiment_lower = str_positive
         THEN IF price_change > 0
              THEN [template |-> "positive, supported by increase",
                    desc |-> confidence_desc, confidence |-> confidence,
                    change |-> price_change]
              ELSE [template |-> "positive despite decrease", desc |-> confidence_desc,
                    confidence |-> confidence, change |-> Abs(price_change)]
    ELSE IF sentiment_lower = str_negative
         THEN IF price_change < 0
              THEN [template |-> "negative, reflecting decrease",
                    desc |-> confidence_desc, confidence |-> confidence,
                    change |-> Abs(price_change)]
              ELSE [template |-> "negative despite increase", desc |-> confidence_desc,
                    confidence |-> confidence, change |-> price_change]
    ELSE IF Abs(price_change) < 2
         THEN [template |-> "neutral, stable", confidence |-> confidence,
               change |-> price_change]
         ELSE [template |-> "neutral despite movement", confidence |-> confidence,
               change |-> Abs(price_change),
               direction |-> IF price_change > 0 THEN "increase" ELSE "decrease"]

\* AIResponse / the task's result dict; the text is the response sentence, a blank
\* line and the explanation
AIResponse(text, sentiment, confidence, metrics) ==
    [t |-> "dict", text |-> text, sentiment |-> sentiment, confidence |-> confidence,
     metrics |-> metrics]

\* the questions of the model, and the context of each, tabulated
PipelineQuestions == {str_BTC_trend, str_crypto_future}

ContextTable == [q \in PipelineQuestions |-> CryptoContextOf(Lower(q))]

---------------------------------------------------------------------------
(* POST /ask, backend/main.py                                              *)

\* what process_question answers and the way it got there: "hit" (served from the
\* full_response cache), "computed", "stale" (processing raised, the cached entry
\* was served) or "fallback"
AskOutcome(v, st, reqs, clf, path) ==
    [ret |-> v, raised |-> FALSE, store |-> st, reqs |-> reqs, clf |-> clf,
     path |-> path]

\* the fallback response; metrics is the local variable as the failure left it
FallbackResponse(metrics) ==
    AIResponse(<<[template |-> "I apologize"]>>, str_NEUTRAL, 500, metrics)

\* redis_client calls of process_question itself
AskStoreOps == <<"full_get", "full_setex", "full_getstale">>

\* a handler that stores the fallback it returns under the question's key
ServeStaleOrFallback_CacheFallback(st1, t, cache_key, metrics, reqs, clf, fails) ==
    LET stale_response == IF "full_getstale" \in fails THEN None
                          ELSE RedisGet(st1, t, cache_key)
    IN IF Truthy(stale_response)
       THEN AskOutcome(json_loads(stale_response), st1, reqs, clf, "stale")
       ELSE AskOutcome(FallbackResponse(metrics),
                       IF "full_setex" \in fails THEN st1
                       ELSE RedisSetex(st1, t, cache_key, Main_CACHE_TTLS.sentiment,
                                       json_dumps(FallbackResponse(metrics))),
                       reqs, clf, "fallback")

\* a handler that goes to the fallback without looking for a cached response
ServeStaleOrFallback_NoStale(st1, t, cache_key, metrics, reqs, clf, fails) ==
    AskOutcome(FallbackResponse(metrics), st1, reqs, clf, "fallback")

\* except Exception: serve the cached response if there is one (a failing read is
\* logged), else the fallback
ServeStaleOrFallback(st1, t, cache_key, metrics, reqs, clf, fails) ==
    LET stale_response == IF "full_getstale" \in fails THEN None
                          ELSE RedisGet(st1, t, cache_key)
    IN IF Truthy(stale_response)
       THEN AskOutcome(json_loads(stale_response), st1, reqs, clf, "stale")
       ELSE AskOutcome(FallbackResponse(metrics), st1, reqs, clf, "fallback")

Main_process_question(st, t, request_question, resp, resp2, out, fails) ==
    LET cache_key == get_cache_key(str_full_response, request_question)
        question == Lower(request_question)
        crypto_context == ContextTable[request_question]
        names_coin == crypto_context # str_the_cryptocurrency_market
        Except(st1, metrics, reqs, clf) ==
            ServeStaleOrFallback(st1, t, cache_key, metrics, reqs, clf, fails)
        \* try: redis_client.setex(...) except Exception: logging.warning
        Cache(response, g, reqs, clf) ==
            AskOutcome(response,
                       IF "full_setex" \in fails THEN g.store
                       ELSE RedisSetex(g.store, t, cache_key, Main_CACHE_TTLS.sentiment,
                                       json_dumps(response)),
                       reqs, clf, "computed")
        \* response = AIResponse(text=..., sentiment=..., confidence=..., metrics=...)
        Respond(d, coin_data, metrics, s, g) ==
            IF g.raised THEN Except(g.store, metrics, d.reqs + g.reqs, s.clf)
            ELSE Cache(AIResponse(<<g.text,
                                    Main_get_sentiment_explanation(s.ret.label,
                                                                   s.ret.score,
                                                                   coin_data)>>,
                                  s.ret.label, s.ret.score, metrics),
                       g, d.reqs + g.reqs, s.clf)
        \* response_text = crypto_service.generate_ai_response(...)
        Generate(d, coin_data, metrics, s) ==
            IF s.raised THEN Except(s.store, metrics, d.reqs, s.clf)
            ELSE Respond(d, coin_data, metrics, s,
                         generate_ai_response(
                             question, s.ret.label, coin_data, s.store,
                             [limit \in {5, 10} |->
                                 Main_get_market_data(s.store, t, str_usd, limit, resp2,
                                                      fails)]))
        \* sentiment_result = analyze_sentiment_with_context(question, coin_data)
        Analyze(d, coin_data, metrics) ==
            Generate(d, coin_data, metrics,
                     Main_analyze_sentiment_with_context(d.store, t, question,
                                                         coin_data, out, fails))
        \* coin_data and metrics of the coin path, metrics of the market path
        WithData(d) ==
            IF d.raised THEN Except(d.store, EmptyMetrics, d.reqs, 0)
            ELSE Analyze(d,
                         IF names_coin THEN d.ret ELSE None,
                         IF ~Truthy(d.ret) THEN EmptyMetrics
                         ELSE IF names_coin THEN get_coin_metrics(d.ret)
                         ELSE get_market_overview_metrics(d.ret))
        \* cached_response = redis_client.get(cache_key)
        Lookup(cached_response) ==
            IF Truthy(cached_response)
            THEN AskOutcome(json_loads(cached_response), st, 0, 0, "hit")
            ELSE WithData(IF names_coin
                          THEN Main_get_coin_by_name(st, t, crypto_context, resp, fails)
                          ELSE Main_get_market_data(st, t, str_usd, 10, resp, fails))
    IN IF "full_get" \in fails THEN Except(st, EmptyMetrics, 0, 0)
       ELSE Lookup(RedisGet(st, t, cache_key))

\* the responses to the upstream requests of the pipeline: no answer, or a ranking
AskResponses ==
    { [status |-> 0, body |-> None] }
    \cup { [status |-> 200, body |-> PyList(w)] : w \in Worlds \ {<<>>} }

\* the classifier's answers while questions are processed
AskClassifierOutputs ==
    { SentimentResult(str_Positive, 990), SentimentResult(str_NEGATIVE, 600),
      ClassifierError }

\* the store during one request: working, down, or failing in one operation
AskFailurePatterns ==
    { {},
      { MainCoinStoreOps[n] : n \in 1..Len(MainCoinStoreOps) }
          \cup { SentimentStoreOps[n] : n \in 1..Len(SentimentStoreOps) }
          \cup { AskStoreOps[n] : n \in 1..Len(AskStoreOps) } }
    \cup { {op} : op \in {"full_get", "sent_get", "sent_setex", "full_setex"} }

AskRecord(key, resp, fails, o) ==
    [op |-> "process_question", impl |-> "main", key |-> key,
     pre |-> RedisGet(store, now, key),
     resp |-> IF o.reqs = 0 THEN NoResponse ELSE resp,
     storefail |-> fails # {}, readfail |-> "full_get" \in fails,
     ret |-> o.ret, raised |-> o.raised, reqs |-> o.reqs, clf |-> o.clf,
     path |-> o.path]

\* a client puts its question to /ask, and puts the same question again
Ask ==
    \E question \in PipelineQuestions, resp \in AskResponses :
    \E out \in AskClassifierOutputs, fails \in AskFailurePatterns :
        LET o == Main_process_question(store, now, question, resp, resp, out, fails)
        IN /\ task.question \in {<<>>, question}
           /\ task' = [task EXCEPT !.question = question]
           /\ svc' = svc
           /\ store' = o.store
           /\ written' = WrittenAfter(written, store, o.store)
           /\ now' = now
           /\ last' = AskRecord(get_cache_key(str_full_response, question), resp,
                                fails, o)

NextAsk ==
    \/ Ask
    \/ TickGw

SpecAsk == Init /\ [][NextAsk]_vars

\* C12: /ask always returns a structured answer, and when every path fails
\* (processing raised and no cached response could be served) the answer is exactly
\* the fallback: NEUTRAL, 0.5, empty metrics and the apology, at whatever step the
\* failure occurred.
C12_FallbackIsExact ==
    last.op = "process_question" =>
        /\ ~last.raised
        /\ last.ret.t = "dict"
        /\ {"text", "sentiment", "confidence", "metrics"} \subseteq DOMAIN last.ret
        /\ last.path = "fallback" =>
               /\ last.ret.text = <<[template |-> "I apologize"]>>
               /\ last.ret.sentiment = str_NEUTRAL
               /\ last.ret.confidence = 500
               /\ last.ret.metrics = EmptyMetrics


---------------------------------------------------------------------------
(* Question pipeline as the worker runs it, backend/tasks.py               *)

\* the upstream's answer to ...params={"ids": name} when it ranks resp.body
AnswerForCoin(resp, name) ==
    IF resp.status = 200 /\ resp.body.t = "list"
    THEN [resp EXCEPT !.body = PyList(SelectSeq(resp.body.v, LAMBDA c : c.id = name))]
    ELSE resp

\* redis_client calls of one run of the task, through its two services
TaskStoreOps ==
    { MarketStoreOps[n] : n \in 1..Len(MarketStoreOps) }
    \cup { SvcCoinStoreOps[n] : n \in 1..Len(SvcCoinStoreOps) }
    \cup { SentimentStoreOps[n] : n \in 1..Len(SentimentStoreOps) }

\* a task that takes the overview branch whatever the question names
process_question_task_AlwaysOverview(st, t, question, resp, resp2, out, fails) ==
    LET Respond(d, metrics, s, g) ==
            IF g.raised THEN Raise(g.store, d.reqs + g.reqs, s.clf)
            ELSE Return(AIResponse(<<g.text,
                                     Svc_get_sentiment_explanation(s.ret.label,
                                                                   s.ret.score, None)>>,
                                   s.ret.label, s.ret.score, metrics),
                        g.store, d.reqs + g.reqs, s.clf)
        Generate(d, metrics, s) ==
            IF s.raised THEN Raise(s.store, d.reqs, s.clf)
            ELSE Respond(d, metrics, s,
                         generate_ai_response(
                             question, s.ret.label, None, s.store,
                             [limit \in {5, 10} |->
                                 Svc_get_market_data(s.store, t, str_usd, limit, resp2,
                                                     fails)]))
        WithData(d) ==
            IF d.raised THEN Raise(d.store, d.reqs, 0)
            ELSE Generate(d,
                          IF Truthy(d.ret) THEN get_market_overview_metrics(d.ret)
                          ELSE EmptyMetrics,
                          Svc_analyze_sentiment_with_context(d.store, t, question, None,
                                                             out, fails))
    IN WithData(Svc_get_market_data(st, t, str_usd, 10, resp, fails))

\* process_question_task(question): the returned dict, or RuntimeError.  The steps
\* are written last to first; each takes the outcomes of the steps before it.
process_question_task(st, t, question, resp, resp2, out, fails) ==
    LET crypto_context == ContextTable[question]
        names_coin == crypto_context # str_the_cryptocurrency_market
        \* return {"text", "sentiment", "confidence", "metrics"}
        Respond(d, coin_data, metrics, s, g) ==
            IF g.raised THEN Raise(g.store, d.reqs + g.reqs, s.clf)
            ELSE Return(AIResponse(<<g.text,
                                     Svc_get_sentiment_explanation(s.ret.label,
                                                                   s.ret.score,
                                                                   coin_data)>>,
                                   s.ret.label, s.ret.score, metrics),
                        g.store, d.reqs + g.reqs, s.clf)
        \* response_text = crypto_service.generate_ai_response(...)
        Generate(d, coin_data, metrics, s) ==
            IF s.raised THEN Raise(s.store, d.reqs, s.clf)
            ELSE Respond(d, coin_data, metrics, s,
                         generate_ai_response(
                             question, s.ret.label, coin_data, s.store,
                             [limit \in {5, 10} |->
                                 Svc_get_market_data(s.store, t, str_usd, limit, resp2,
                                                     fails)]))
        \* sentiment_result = sentiment_analyzer.analyze_sentiment_with_context(...)
        Analyze(d, coin_data, metrics) ==
            Generate(d, coin_data, metrics,
                     Svc_analyze_sentiment_with_context(d.store, t, question, coin_data,
                                                        out, fails))
        \* metrics, and coin_data if 'coin_data' in locals() else None
        WithData(d) ==
            IF d.raised THEN Raise(d.store, d.reqs, 0)
            ELSE Analyze(d,
                         IF names_coin THEN d.ret ELSE None,
                         IF ~Truthy(d.ret) THEN EmptyMetrics
                         ELSE IF names_coin THEN get_coin_metrics(d.ret)
                         ELSE get_market_overview_metrics(d.ret))
    IN WithData(IF names_coin
               THEN Svc_get_coin_by_name(st, t, crypto_context,
                                         AnswerForCoin(resp, crypto_context), fails)
               ELSE Svc_get_market_data(st, t, str_usd, 10, resp, fails))

---------------------------------------------------------------------------
(* The task in the queue, and the request that waits for it.  The worker's *)
(* side is @shared_task as declared in backend/tasks.py; the submitting    *)
(* request is not part of backend/ and follows the request-tier text.      *)

\* retry bound and wait of the request tier
MaxRetries == 3
request_timeout == 30

\* what the environment does to the first, second, ... attempt of a task: "up", the
\* attempt runs through; "down", something it depends on raises
EnvScripts == [1..(MaxRetries + 1) -> {"up", "down"}]

Terminal == {"SUCCESS", "FAILURE"}

\* the RuntimeError of tasks.py:81 as the task's stored result
TaskError == [t |-> "error", type |-> "RuntimeError"]

\* a request submits the question as a task and waits for its result
Submit ==
    \E question \in PipelineQuestions, env \in EnvScripts :
        /\ task.state = "NONE"
        /\ task' = [task EXCEPT !.state = "PENDING", !.question = question,
                                !.env = env, !.request = "waiting",
                                !.submitted_at = now]
        /\ last' = NoCall("submit")
        /\ UNCHANGED <<store, now, written, svc>>

\* a worker takes the task from the queue
WorkerStart ==
    /\ task.state = "PENDING"
    /\ task' = [task EXCEPT !.state = "STARTED", !.attempts = @ + 1]
    /\ last' = NoCall("start")
    /\ UNCHANGED <<store, now, written, svc>>

\* the task body runs to its end.  @shared_task carries no retry option and the
\* body never calls retry(): a return is SUCCESS, the RuntimeError is FAILURE
WorkerFinish ==
    \E resp \in AskResponses, out \in AskClassifierOutputs :
    \E fails \in {{}, TaskStoreOps} :
        LET o == process_question_task(store, now, task.question, resp, resp, out,
                                       fails)
        IN /\ task.state = "STARTED"
           /\ o.raised <=> task.env[task.attempts] = "down"
           /\ task' = [task EXCEPT !.state = IF o.raised THEN "FAILURE" ELSE "SUCCESS",
                                   !.result = IF o.raised THEN TaskError ELSE o.ret,
                                   !.done_at = now]
           /\ store' = o.store
           /\ written' = WrittenAfter(written, store, o.store)
           /\ last' = NoCall("finish")
           /\ UNCHANGED <<now, svc>>

\* the waiting request receives the task's outcome: the answer, or the error
RequestReturn ==
    /\ task.request = "waiting"
    /\ task.state \in Terminal
    /\ task' = [task EXCEPT !.request = IF task.state = "SUCCESS" THEN "answered"
                                        ELSE "processing_error"]
    /\ last' = NoCall("return")
    /\ UNCHANGED <<store, now, written, svc>>

\* the wait exceeds its timeout: the request answers without the task, which goes on
RequestTimeout ==
    /\ task.request = "waiting"
    /\ task.state \notin Terminal
    /\ now - task.submitted_at > request_timeout
    /\ task' = [task EXCEPT !.request = "timed_out"]
    /\ last' = NoCall("timeout")
    /\ UNCHANGED <<store, now, written, svc>>

NextCelery ==
    \/ Submit
    \/ WorkerStart
    \/ WorkerFinish
    \/ RequestReturn
    \/ RequestTimeout
    \/ TickGw

SpecCelery == Init /\ [][NextCelery]_vars


\* C11: for the 1800 seconds after a question was answered, the same question gets
\* the identical answer again (text, sentiment, confidence, metrics), whatever the
\* upstream, the classifier and the cached market data do in the meantime.
C11_RepeatedQuestionSameAnswer ==
    ( /\ task.state = "SUCCESS"
      /\ now - task.done_at < CACHE_TTLS.full_response )
    => \A resp \in AskResponses, out \in AskClassifierOutputs :
           LET again == process_question_task(store, now, task.question, resp, resp,
                                              out, {})
           IN /\ ~again.raised
              /\ again.ret = task.result

\* C13: a task whose first two attempts raise and whose third would run through is
\* retried after each failure, with the backoff delay before each retry, and ends
\* in success with the third attempt's result.
C13_TransientFailuresAreRetried ==
    ( /\ task.state \in Terminal
      /\ task.env[1] = "down" /\ task.env[2] = "down" /\ task.env[3] = "up" )
    => /\ task.state = "SUCCESS"
       /\ task.attempts = 3
       /\ task.retries = 2
       /\ task.delays = 2
       /\ task.result # TaskError

\* C14: a task whose attempts all raise passes through its retries, each after the
\* backoff delay and never more than 3 of them, before it is terminally failed, and
\* the failure reaches the caller as a processing error.
C14_FailureOnlyAfterRetries ==
    /\ task.retries <= MaxRetries
    /\ ( task.state = "FAILURE" /\ \A n \in DOMAIN task.env : task.env[n] = "down" )
       => /\ task.retries >= 1
          /\ task.delays = task.retries
          /\ task.request \in {"waiting", "processing_error", "timed_out"}

\* C19: when the request's wait timed out and the task went on to succeed, the
\* task's answer is in the response cache under the question's key.
C19_OrphanedTaskFillsCache ==
    ( /\ task.request = "timed_out"
      /\ task.state = "SUCCESS"
      /\ now = task.done_at )
    => LET cached_response ==
               RedisGet(store, now, get_cache_key(str_full_response, task.question))
       IN /\ Truthy(cached_response)
          /\ json_loads(cached_response) = task.result


\* C21: on a sentiment cache miss (the classifier ran and the call returned), the
\* label of the result is one of POSITIVE, NEGATIVE, NEUTRAL whatever casing the
\* classifier emitted, its score is at most 0.95, and what was left in the cache
\* under the question's key is that result.
C21_MissStandardisesAndCaps ==
    ( /\ last.op = "analyze_sentiment_with_context"
      /\ last.clf = 1
      /\ ~last.raised )
    => /\ last.ret.label \in StandardLabels
       /\ last.ret.score <= 950
       /\ json_loads(RedisGet(store, now, last.key)) = last.ret


\* C22: context adjustment happens only on a miss.  While the store holds a result
\* under the question's key, an analysis of that question returns the cached result
\* as it is and leaves the entry as it is, whatever price context the call passes
\* (also one that would flip the label or raise the score on a miss).
C22_CachedResultIgnoresContext ==
    \A i \in SentimentInputs :
        LET cached == RedisGet(store, now, get_cache_key(str_sentiment, i.question))
        IN (i.fails = {} /\ Truthy(cached)) =>
               \A c \in Contexts :
                   LET o == RunSentiment([i EXCEPT !.context = c], store, now)
                   IN /\ ~o.raised
                      /\ o.ret = json_loads(cached)
                      /\ o.store = store

\* the store holds POSITIVE for a question about the trend, which a change of -6%
\* would turn NEGATIVE on a miss, and the last analysis was answered from it
C22_Witness ==
    /\ last.op = "analyze_sentiment_with_context"
    /\ last.impl = "main"
    /\ last.clf = 0
    /\ ~last.raised
    /\ Truthy(last.pre)
    /\ last.ret = json_loads(last.pre)
    /\ last.ret.label = str_POSITIVE
    /\ AnyTermIn({str_trend}, last.key)
    /\ Coin(str_bitcoin, str_btc, -6) \in Contexts


---------------------------------------------------------------------------
(* Context extraction on its own: the loop of tasks.py:27-34, the same     *)
(* loop of main.py:536-581, and the helper services.py:65-71               *)

PyStr(s) == [t |-> "str", v |-> s]

str_bitcoin_cash == <<"b","i","t","c","o","i","n"," ","c","a","s","h">>
str_stETH == <<"s","t","E","T","H">>
str_Pi == <<"P","i">>
str_happiness == <<"h","a","p","p","i","n","e","s","s">>
str_dot == <<"d","o","t">>
str_moon == <<"m","o","o","n">>
str_bitcoin_cash_id == <<"b","i","t","c","o","i","n","-","c","a","s","h">>

\* the words questions are made of: tickers and names in mixed case, a name that
\* holds a shorter keyword, words that hold a keyword by accident, words without
ExtractionWords ==
    {str_BTC, str_bitcoin_cash, str_stETH, str_Pi, str_happiness, str_dot, str_moon}

\* questions of one word or two
ExtractionQuestions ==
    ExtractionWords
    \cup { a \o <<" ">> \o b : a \in ExtractionWords, b \in ExtractionWords }


\* CryptoDataService.extract_crypto_context: the same scan, None without a match
extract_crypto_context(question) ==
    LET question_lower == Lower(question)
    IN IF KeywordHits(question_lower) = {} THEN None
       ELSE PyStr(CryptoContextOf(question_lower))

ExtractionRecord(impl, question, ret) ==
    [NoCall("extract_crypto_context") EXCEPT !.impl = impl, !.key = question,
                                             !.ret = ret]

\* the task and the /ask handler run their loop on a question
ExtractInPipeline ==
    \E question \in ExtractionQuestions, impl \in {"tasks", "main"} :
        /\ last' = ExtractionRecord(impl, question,
                                    PyStr(CryptoContextOf(Lower(question))))
        /\ UNCHANGED <<store, now, written, svc, task>>

\* a caller uses the service's helper
ExtractWithHelper ==
    \E question \in ExtractionQuestions :
        /\ last' = ExtractionRecord("services", question,
                                    extract_crypto_context(question))
        /\ UNCHANGED <<store, now, written, svc, task>>

NextExtract ==
    \/ ExtractInPipeline
    \/ ExtractWithHelper

SpecExtract == Init /\ [][NextExtract]_vars

\* the keyword that comes first in the table among those in the question
FirstKeyword(question) ==
    LET hits == KeywordHits(Lower(question))
    IN CHOOSE i \in hits : \A j \in hits : i <= j

\* C23: context extraction returns the canonical id of the first keyword, in table
\* order, that is a substring of the lower-cased question, and the sentinel "the
\* cryptocurrency market" when no keyword is a substring.
C23_FirstMatchOrSentinel ==
    last.op = "extract_crypto_context" =>
        IF KeywordHits(Lower(last.key)) = {}
        THEN last.ret = PyStr(str_the_cryptocurrency_market)
        ELSE last.ret = PyStr(CRYPTO_KEYWORDS[FirstKeyword(last.key)][2])

\* C23, amended: the first keyword in table order decides in all three places; with
\* no keyword in the question the loops of the task and of /ask give the sentinel
\* and extract_crypto_context gives None.
C23_FirstMatchOrDefault ==
    last.op = "extract_crypto_context" =>
        IF KeywordHits(Lower(last.key)) = {}
        THEN last.ret = IF last.impl = "services" THEN None
                        ELSE PyStr(str_the_cryptocurrency_market)
        ELSE last.ret = PyStr(CRYPTO_KEYWORDS[FirstKeyword(last.key)][2])

\* "bitcoin cash" was asked about: the longer keyword "bitcoin cash" is in the
\* question, "bitcoin" comes first in the table and decides
C23_Witness ==
    /\ last.op = "extract_crypto_context"
    /\ last.key = str_bitcoin_cash
    /\ \E i \in KeywordHits(last.key) : CRYPTO_KEYWORDS[i][2] = str_bitcoin_cash_id
    /\ last.ret = PyStr(str_bitcoin)


---------------------------------------------------------------------------
(* Claims about the branching of the pipeline (SpecAsk)                    *)

\* what the branch of the pipeline is to fetch, pass on and report for a question,
\* given the outcomes of the gateway's two lookups
Branch(question, coin, overview) ==
    LET names_coin == ContextTable[question] # str_the_cryptocurrency_market
    IN [fetched |-> IF names_coin THEN coin ELSE overview,
        context |-> IF names_coin THEN coin.ret ELSE None,
        metrics |-> IF names_coin
                    THEN IF Truthy(coin.ret) THEN get_coin_metrics(coin.ret)
                         ELSE EmptyMetrics
                    ELSE IF Truthy(overview.ret)
                         THEN get_market_overview_metrics(overview.ret)
                         ELSE EmptyMetrics]

\* C24: branching.  A question that names a coin is answered from get_coin_by_name:
\* the metrics are the coin's metrics when a snapshot was found and empty otherwise
\* (never those of the 10-coin overview), and the snapshot, or absent, is the context
\* of the sentiment analysis and of the composer.  A question that names none is
\* answered from the 10-coin overview: aggregate metrics when it is non-empty, empty
\* metrics otherwise, and no context.
C24_TaskBranching ==
    \A question \in PipelineQuestions, resp \in AskResponses :
    \A out \in AskClassifierOutputs :
        LET ctx == ContextTable[question]
            ran == process_question_task(store, now, question, resp, resp, out, {})
            b == Branch(question,
                        Svc_get_coin_by_name(store, now, ctx, AnswerForCoin(resp, ctx),
                                             {}),
                        Svc_get_market_data(store, now, str_usd, 10, resp, {}))
            s == Svc_analyze_sentiment_with_context(b.fetched.store, now, question,
                                                    b.context, out, {})
            asked == Main_process_question(store, now, question, resp, resp, out, {})
            mb == Branch(question,
                         Main_get_coin_by_name(store, now, ctx, resp, {}),
                         Main_get_market_data(store, now, str_usd, 10, resp, {}))
            ms == Main_analyze_sentiment_with_context(mb.fetched.store, now,
                                                      Lower(question), mb.context, out,
                                                      {})
        IN /\ ~ran.raised =>
                  /\ ran.ret.metrics = b.metrics
                  /\ ran.ret.sentiment = s.ret.label
                  /\ ran.ret.confidence = s.ret.score
                  /\ ran.ret.text[1] =
                         generate_ai_response(
                             question, s.ret.label, b.context, s.store,
                             [limit \in {5, 10} |->
                                 Svc_get_market_data(s.store, now, str_usd, limit, resp,
                                                     {})]).text
                  /\ ran.ret.text[2] =
                         Svc_get_sentiment_explanation(s.ret.label, s.ret.score,
                                                       b.context)
           /\ asked.path = "computed" =>
                  /\ asked.ret.metrics = mb.metrics
                  /\ asked.ret.sentiment = ms.ret.label
                  /\ asked.ret.confidence = ms.ret.score
                  /\ asked.ret.text[1] =
                         generate_ai_response(
                             Lower(question), ms.ret.label, mb.context, ms.store,
                             [limit \in {5, 10} |->
                                 Main_get_market_data(ms.store, now, str_usd, limit,
                                                      resp, {})]).text
                  /\ asked.ret.text[2] =
                         Main_get_sentiment_explanation(ms.ret.label, ms.ret.score,
                                                        mb.context)

\* /ask computed an answer for the question about BTC from one upstream request: the
\* coin was found and its metrics, not the overview's, are in the answer
C24_Witness ==
    /\ last.op = "process_question"
    /\ last.path = "computed"
    /\ last.key = get_cache_key(str_full_response, str_BTC_trend)
    /\ "change24h" \in DOMAIN last.ret.metrics
    /\ "coinsAnalyzed" \notin DOMAIN last.ret.metrics
    /\ last.reqs = 1


---------------------------------------------------------------------------
(* The composer on its own (generate_ai_response of services.py and of     *)
(* main.py, which are the same text)                                       *)

str_BTC_Price == <<"B","T","C"," ","P","r","i","c","e">>
str_BTC_trend_forecast == <<"B","T","C"," ","t","r","e","n","d"," ","f","o","r","e","c","a","s","t">>
str_predict_BTC == <<"p","r","e","d","i","c","t"," ","B","T","C">>

\* questions that mention price or trend (one of them a forecast as well), a
\* forecast question, and one with neither
ComposerQuestions ==
    {str_BTC_Price, str_BTC_trend, str_BTC_trend_forecast, str_predict_BTC, str_BTC}

\* the 24h change, in percent
Changes == (0 - MaxChange)..MaxChange

\* the composer's call: the question, the coin data and label it was given, its text
ComposerRecord(question, sentiment, coin_data, text) ==
    [NoCall("generate_ai_response") EXCEPT !.key = question, !.pre = coin_data,
                                           !.resp = sentiment, !.ret = text]

\* the composer is given a question, a label and a coin snapshot
Compose ==
    \E question \in ComposerQuestions, c \in Changes :
    \E sentiment \in StandardLabels :
        LET coin_data == Coin(str_bitcoin, str_btc, c)
            g == generate_ai_response(
                     question, sentiment, coin_data, store,
                     [limit \in {5, 10} |->
                         Svc_get_market_data(store, now, str_usd, limit,
                                             [status |-> 0, body |-> None], {})])
        IN /\ last' = ComposerRecord(question, sentiment, coin_data, g.text)
           /\ UNCHANGED <<store, now, written, svc, task>>

\* the composer is given a question and a label, and no coin
ComposeWithoutCoin ==
    \E question \in ComposerQuestions, sentiment \in StandardLabels :
        LET g == generate_ai_response(
                     question, sentiment, None, store,
                     [limit \in {5, 10} |->
                         Svc_get_market_data(store, now, str_usd, limit,
                                             [status |-> 0, body |-> None], {})])
        IN /\ last' = ComposerRecord(question, sentiment, None, g.text)
           /\ UNCHANGED <<store, now, written, svc, task>>

NextCompose ==
    \/ Compose
    \/ ComposeWithoutCoin

SpecCompose == Init /\ [][NextCompose]_vars

\* C25: with coin data and a question that mentions price or trend, the composer
\* answers with the movement sentence (also when the question asks for a forecast),
\* in the band of the 24h change c: strong bullish for c > 5, positive trend for
\* 2 < c <= 5, stable for -2 <= c <= 2, negative trend for -5 <= c < -2, strong
\* bearish for c < -5; the direction is "up" exactly when c > 0.
C25_FiveBands ==
    ( /\ last.op = "generate_ai_response"
      /\ Truthy(last.pre)
      /\ AnyTermIn({str_price, str_trend}, last.key) )
    => LET c == last.pre.price_change_percentage_24h
       IN /\ last.ret.template = "is moving"
          /\ c > 5 => last.ret.desc = "showing strong bullish momentum"
          /\ (2 < c /\ c <= 5) => last.ret.desc = "trending positively"
          /\ (-2 <= c /\ c <= 2) => last.ret.desc = "relatively stable"
          /\ (-5 <= c /\ c < -2) => last.ret.desc = "trending negatively"
          /\ c < -5 => last.ret.desc = "showing significant bearish pressure"
          /\ (last.ret.direction = "up") <=> (c > 0)
          /\ last.ret.direction \in {"up", "down"}

\* a question about the trend that also asks for a forecast was composed at the
\* bound of a band, c = -5
C25_Witness ==
    /\ last.op = "generate_ai_response"
    /\ last.key = str_BTC_trend_forecast
    /\ Truthy(last.pre)
    /\ last.pre.price_change_percentage_24h = -5
    /\ last.ret.template = "is moving"
    /\ last.ret.desc = "trending negatively"


---------------------------------------------------------------------------
(* Claims about the error path of /ask (SpecAsk)                           *)

\* the ways /ask can be called and what its dependencies do during the call
AskInputs ==
    { [question |-> q, resp |-> resp, out |-> out, fails |-> fails] :
        q \in PipelineQuestions, resp \in AskResponses, out \in AskClassifierOutputs,
        fails \in AskFailurePatterns }

RunAsk(i, st, t) ==
    Main_process_question(st, t, i.question, i.resp, i.resp, i.out, i.fails)

\* C26: when processing raised, /ask serves the full_response entry of the question
\* if the store returns one, and the canned fallback message only when the store
\* holds none or the read fails.
C26_StaleBeforeFallback ==
    \A i \in AskInputs :
        LET o == RunAsk(i, store, now)
            entry == RedisGet(store, now, get_cache_key(str_full_response, i.question))
        IN o.path \in {"stale", "fallback"} =>
               /\ ~o.raised
               /\ IF "full_getstale" \notin i.fails /\ Truthy(entry)
                  THEN o.path = "stale" /\ o.ret = json_loads(entry)
                  ELSE /\ o.path = "fallback"
                       /\ o.ret.text = <<[template |-> "I apologize"]>>

\* the first read of the store failed while the store held an answer to the
\* question, and /ask served that answer
C26_Witness ==
    /\ last.op = "process_question"
    /\ last.path = "stale"
    /\ last.readfail
    /\ Truthy(last.pre)
    /\ last.ret = json_loads(last.pre)
    /\ last.ret.text # <<[template |-> "I apologize"]>>


---------------------------------------------------------------------------
(* Claims about what the gateway writes (SpecCoin, SpecMarket, SpecAsk)    *)

\* C27: the negative sentinel is written only after an upstream lookup that
\* succeeded and matched nothing.  A get_coin_by_name call whose upstream request
\* failed, was rate-limited or brought no decodable data leaves no sentinel under
\* the coin's key.
C27_SentinelOnlyAfterSuccess ==
    ( /\ last.op = "get_coin_by_name"
      /\ last.reqs = 1
      /\ ~Fetched(last.resp) )
    => RedisGet(store, now, last.key) # str_null


IsFullResponseKey(k) ==
    /\ Len(k) > Len(str_full_response)
    /\ SubSeq(k, 1, Len(str_full_response)) = str_full_response

\* the full_response part of a store
FullResponses(st) == [k \in { k \in DOMAIN st : IsFullResponseKey(k) } |-> st[k]]

\* C28: the full_response cache holds composed answers only.  No entry decodes to the
\* canned fallback, and a call of /ask that returns the fallback or re-serves a
\* cached copy on error writes nothing to the full_response cache.
C28_OnlyComposedAnswersCached ==
    /\ \A k \in DOMAIN FullResponses(store) :
           json_loads(store[k].val).text # <<[template |-> "I apologize"]>>
    /\ \A i \in AskInputs :
           LET o == RunAsk(i, store, now)
           IN o.path \in {"stale", "fallback"} =>
                  FullResponses(o.store) = FullResponses(store)

\* /ask has answered with the fallback, the store working, and holds no answer to
\* the question afterwards
C28_Witness ==
    /\ last.op = "process_question"
    /\ last.path = "fallback"
    /\ ~last.storefail
    /\ last.ret.text = <<[template |-> "I apologize"]>>
    /\ RedisGet(store, now, last.key) = None


\* the keys under which two stores differ
ChangedKeys(st0, st1) ==
    { k \in (DOMAIN st0) \cup (DOMAIN st1) :
        k \notin DOMAIN st0 \/ k \notin DOMAIN st1 \/ st0[k] # st1[k] }

\* C29: get_market_data makes at most one upstream request per call and writes the
\* cache only with the payload of a successful response, under the key of the call:
\* on a cache hit, on 429 and on any failure it leaves every entry as it was.
C29_WritesOnlyFetchedPayload ==
    \A i \in MarketInputs :
        LET key == MarketKey(i.cur, i.limit)
            hit == "get" \notin i.fails /\ Truthy(RedisGet(store, now, key))
            o == RunMarket(i, store, now)
        IN /\ o.reqs <= 1
           /\ \A k \in ChangedKeys(store, o.store) :
                  /\ k = key
                  /\ o.reqs = 1
                  /\ Fetched(i.resp)
                  /\ o.store[k].val = json_dumps(i.resp.body)
           /\ (hit \/ ~Fetched(i.resp) \/ {"get", "setex"} \cap i.fails # {})
              => o.store = store

\* with a snapshot of another request in the store, a call went upstream, was
\* answered 429, and the store still holds that snapshot
C29_Witness ==
    /\ last.op = "get_market_data"
    /\ last.reqs = 1
    /\ last.resp.status = 429
    /\ ~last.raised
    /\ \E k \in DOMAIN store : k # last.key /\ Truthy(json_loads(store[k].val))
    /\ last.key \notin DOMAIN store

=============================================================================
